---- MODULE Spec2Model ----
(***************************************************************************)
(* Model of the Bluetooth remote's connection core: BluetoothManager       *)
(* (services/bluetooth.js, the version with the operationInProgress guard) *)
(* and StateManager (core/state.js) with the localStorage it saves to and  *)
(* the listeners it notifies, together with the Web Bluetooth platform as  *)
(* far as the manager observes it.                                         *)
(*                                                                         *)
(* JavaScript runs one task at a time: every action below is one task, the *)
(* code of a call or callback from where it starts (or resumes after an    *)
(* await) up to its next await or its end.                                 *)
(***************************************************************************)
EXTENDS Integers, Sequences, FiniteSets, Bags, TLC

(* ------------------------------ bounds ---------------------------------- *)
\* Timers pending plus reconnect callbacks in flight that the model follows.
MaxThreads == 2
\* gattserverdisconnected listeners installed on one device handle.
MaxListeners == 2
\* sendCommand calls awaiting their writeValue at the same time.
MaxWrites == 1
\* StateManager.MAX_COMMAND_QUEUE_SIZE as configured (the tests lower it
\* with setMaxCommandQueueSizeForTesting).
MaxQueue == 2
\* Length of the token list given to sendCommandSequence.
MaxSequence == 2
\* recordCommand calls followed when the command history is checked alone
MaxIssued == 4
\* storage errors queued before flushStorageErrors()
MaxErrors == 2
\* subscriptions to the state at the same time
MaxSubscriptions == 2
\* entries of the paired devices when the getters are checked
MaxPaired == 2
\* commands sent while the user switches between two devices
MaxSent == 1

(* --------------------------- program constants -------------------------- *)
maxReconnectAttempts == 3
\* this.reconnectTimeout holds null or a timer id; of an id the model keeps
\* what the code can observe: whether it names a timer that is still pending
\* (PendingTimer: the timer marked current) or one that has fired.
NoTimer == "null"
PendingTimer == "pending"
FiredTimer == "fired"

NULL == "null"
Devices == {"d1", "d2"}
Tokens == {"ok"}
\* the tokens handleVolumeChange passes to sendCommandSequence
SequenceTokens == {"volume-up", "volume-down"}
\* the tokens recorded when the command history is checked alone
QueueTokens == {"up", "down", "ok"}

DISCONNECTED == "disconnected"
CONNECTING == "connecting"
CONNECTED == "connected"
ERROR == "error"

\* Error messages thrown by the manager.
ErrBusy == "Another Bluetooth operation is in progress"
ErrUnsupported == "Bluetooth is not supported on this device"
ErrNoDeviceSelected == "No device selected"
ErrNotConnected == "Device is not connected. Please reconnect."
ErrNoCharacteristic == "Device characteristic not available. Cannot send command."
ErrLost == "Lost connection to device. Please reconnect."
ErrSendFailed == "Failed to send command"

\* Names of the errors the platform rejects with.
RequestErrorNames == {"NotFoundError", "SecurityError", "Error"}
ConnectErrorNames == {"NetworkError", "NotFoundError", "Error"}
WriteErrorNames == {"NetworkError", "NotConnectedError", "Error"}

RequestErrorMessage(name) ==
    IF name = "NotFoundError" THEN "No device selected. Please try pairing again."
    ELSE IF name = "SecurityError" THEN "Bluetooth access denied. Check browser permissions."
    ELSE "Failed to discover device"

ConnectErrorMessage(name) ==
    IF name = "NetworkError" THEN "Device out of range or turned off."
    ELSE IF name = "NotFoundError" THEN "Device no longer available."
    ELSE "Connection failed"

IsConnectionError(name) == name = "NetworkError" \/ name = "NotConnectedError"

SendErrorMessage(name) == IF IsConnectionError(name) THEN ErrLost ELSE ErrSendFailed

RECURSIVE Pow2(_)
Pow2(n) == IF n = 0 THEN 1 ELSE 2 * Pow2(n - 1)

\* Math.pow(2, attempts) * 1000
BackoffDelay(attempts) == Pow2(attempts) * 1000

(* ------------------------------- state ---------------------------------- *)
VARIABLES
    \* BluetoothManager fields
    device, gattServer, characteristic, isSupported, reconnectAttempts,
    reconnectTimeout, operationInProgress,
    \* StateManager.state fields
    connectionState, activeDeviceId, pairedDevices, isScanning,
    commandQueue, lastCommand,
    \* the rest of the StateManager singleton: the state fields currentView,
    \* onboardingComplete, discoveredDevices, settings and deviceStatus, and
    \* the fields listeners, isInitialized and errorQueue
    stateManager,
    \* the browser around it: localStorage (the text stored under each key
    \* that has an item), and what the last step did there: the listener
    \* calls it made with the snapshot each was given (notified) and the
    \* state:storage-error events it dispatched at window (dispatched)
    browser,
    \* the StateManager method the client called in the last step: its name,
    \* its arguments, the exception localStorage threw during it ("none":
    \* the store worked), the value it returned and whether it threw
    call,
    \* platform: device.gatt.connected and the listeners on each device handle
    gattConnected, disconnectListeners,
    \* positions of the asynchronous code: the guarded call in flight, the
    \* reconnect timers and callbacks, the sendCommand calls awaiting a write
    \* (each with the command history as it was when the call began)
    userOp, threads, writes,
    \* what the call that finished in the last step returned or threw
    \* (NoRet when the last step finished no call)
    ret,
    \* whether the last step ran a give-up branch of the reconnect loop
    gaveUp,
    \* history: the reconnect loop since the last unexpected disconnect, and
    \* whether disconnect() was the last thing the user asked for (true from
    \* the return of an accepted disconnect() to the next requestDevice())
    episode, quiet,
    \* the sendCommandSequence call in flight: where it is suspended, its
    \* arguments, the results object it builds, and the log of what it has
    \* done (tokens passed to sendCommand, delays that have elapsed)
    seq,
    \* the getBatteryLevel call in flight: the await it is suspended at, the
    \* session it reads from, and what the call that ended in the last step
    \* returned
    battery,
    \* history: the commands passed to recordCommand when the command
    \* history is checked alone, in the order of the calls
    issued

vars == <<device, gattServer, characteristic, isSupported, reconnectAttempts,
          reconnectTimeout, operationInProgress,
          connectionState, activeDeviceId, pairedDevices, isScanning,
          commandQueue, lastCommand, gattConnected, disconnectListeners,
          userOp, threads, writes, ret, gaveUp, episode, quiet, seq, battery,
          issued, stateManager, browser, call>>

\* The whole state as one record, so that the code of a handler is the
\* composition of the functions its statements are. fault is the exception
\* localStorage.setItem throws during the step ("none": it stores the item).
Cur ==
    [device |-> device, gattServer |-> gattServer,
     characteristic |-> characteristic, isSupported |-> isSupported,
     reconnectAttempts |-> reconnectAttempts,
     reconnectTimeout |-> reconnectTimeout,
     operationInProgress |-> operationInProgress,
     connectionState |-> connectionState, activeDeviceId |-> activeDeviceId,
     pairedDevices |-> pairedDevices, isScanning |-> isScanning,
     commandQueue |-> commandQueue, lastCommand |-> lastCommand,
     gattConnected |-> gattConnected,
     disconnectListeners |-> disconnectListeners,
     userOp |-> userOp, threads |-> threads, writes |-> writes,
     ret |-> [op |-> "none", out |-> "none"], gaveUp |-> FALSE,
     episode |-> IF episode.done THEN [active |-> FALSE, done |-> FALSE,
                                       attempts |-> 0, waited |-> 0,
                                       waits |-> <<>>]
                 ELSE episode,
     quiet |-> quiet,
     seq |-> IF seq.outcome # "none"
             THEN [pc |-> "idle", tokens |-> <<>>, stopOnError |-> TRUE,
                   i |-> 0, successes |-> <<>>, failures |-> <<>>,
                   attempts |-> <<>>, delays |-> 0, outcome |-> "none"]
             ELSE seq,
     battery |-> IF battery.outcome # "none"
                 THEN [pc |-> "idle", dev |-> "null", doomed |-> FALSE,
                       outcome |-> "none", level |-> 0]
                 ELSE battery,
     issued |-> issued,
     stateManager |-> stateManager,
     browser |-> IF browser.notified = <<>> /\ browser.dispatched = <<>>
                 THEN browser
                 ELSE [browser EXCEPT !.notified = <<>>, !.dispatched = <<>>],
     call |-> [op |-> "none", args |-> <<>>, fault |-> "none",
               returned |-> "null", threw |-> FALSE],
     fault |-> "none",
     fits |-> TRUE]

Apply(M) ==
    /\ M.fits
    /\ device' = M.device
    /\ gattServer' = M.gattServer
    /\ characteristic' = M.characteristic
    /\ isSupported' = M.isSupported
    /\ reconnectAttempts' = M.reconnectAttempts
    /\ reconnectTimeout' = M.reconnectTimeout
    /\ operationInProgress' = M.operationInProgress
    /\ connectionState' = M.connectionState
    /\ activeDeviceId' = M.activeDeviceId
    /\ pairedDevices' = M.pairedDevices
    /\ isScanning' = M.isScanning
    /\ commandQueue' = M.commandQueue
    /\ lastCommand' = M.lastCommand
    /\ gattConnected' = M.gattConnected
    /\ disconnectListeners' = M.disconnectListeners
    /\ userOp' = M.userOp
    /\ threads' = M.threads
    /\ writes' = M.writes
    /\ ret' = M.ret
    /\ gaveUp' = M.gaveUp
    /\ episode' = M.episode
    /\ quiet' = M.quiet
    /\ seq' = M.seq
    /\ battery' = M.battery
    /\ issued' = M.issued
    /\ stateManager' = M.stateManager
    /\ browser' = M.browser
    /\ call' = M.call

(* ------------------------- values of the state -------------------------- *)
\* this.characteristic: null, or the endpoint resolved on a link of dev;
\* stale once that link is gone.
NoCharacteristic == [dev |-> NULL, stale |-> FALSE]
Characteristic(d) == [dev |-> d, stale |-> FALSE]

\* The guarded call in flight: op is "none", "requestDevice" or "connect";
\* pc is the await it is suspended at.
NoOp == [op |-> "none", pc |-> "-", dev |-> NULL, doomed |-> FALSE]

\* The reconnect machinery is a bag of threads: a pending timer ("timerA"
\* runs the reconnect callback, "timerR" runs onDisconnected; current says
\* that this.reconnectTimeout holds its id), or a reconnect callback
\* suspended at gatt.connect() ("gatt") or at the characteristic discovery
\* ("disc"). Pending timers fire in any order: of a timer's delay the model
\* keeps only the time the reconnect loop has waited (episode.waited).
Timer(kind) ==
    [st |-> kind, dev |-> NULL, doomed |-> FALSE, current |-> TRUE]
Callback(pc, d, doomed) ==
    [st |-> pc, dev |-> d, doomed |-> doomed, current |-> FALSE]

NoEpisode == [active |-> FALSE, done |-> FALSE, attempts |-> 0,
              waited |-> 0, waits |-> <<>>]

\* No sendCommandSequence call in flight. outcome is "returned" or
\* "rejected" in the state the call ends in.
NoSeq == [pc |-> "idle", tokens |-> <<>>, stopOnError |-> TRUE, i |-> 0,
          successes |-> <<>>, failures |-> <<>>,
          attempts |-> <<>>, delays |-> 0, outcome |-> "none"]

\* No getBatteryLevel call in flight. outcome is "null" or "level" (with
\* the level read) in the state the call returns in, "rejected" if it threw.
NoBattery == [pc |-> "idle", dev |-> NULL, doomed |-> FALSE,
              outcome |-> "none", level |-> 0]

\* No StateManager method called by the client in the last step.
NoCall == [op |-> "none", args |-> <<>>, fault |-> "none", returned |-> NULL,
           threw |-> FALSE]

Ret(op, out) == [op |-> op, out |-> out]
NoRet == Ret("none", "none")

(* ----------------------------- StateManager ----------------------------- *)
\* VIEWS and STORAGE_KEYS of constants.js
ONBOARDING == "onboarding"
DEVICE_CONNECTION == "device-connection"
DEVICE_LIST == "device-list"
MAIN_REMOTE == "main-remote"
SETTINGS == "settings"

ONBOARDING_COMPLETE == "onboarding-complete"
PAIRED_DEVICES == "paired-devices"
ACTIVE_DEVICE_ID == "active-device-id"
USER_SETTINGS == "user-settings"
DEVICE_STATUS == "device-status"
STORAGE_KEYS == {ONBOARDING_COMPLETE, PAIRED_DEVICES, ACTIVE_DEVICE_ID,
                 USER_SETTINGS, DEVICE_STATUS}

\* DEFAULT_SETTINGS, without buttonMapping (which no code writes)
DEFAULT_SETTINGS ==
    [hapticFeedback |-> TRUE, cursorSensitivity |-> 75, invertYAxis |-> FALSE]

ErrQuota == "Storage quota exceeded. Please clear app data."
ErrSaveFailed == "Failed to save settings. Changes may not persist."
ErrCorrupted == "Corrupted settings detected. Using defaults."

\* The text of a localStorage item: JSON.stringify(v), or text that is not
\* JSON (the empty string, which JavaScript takes for false, or other text).
Stringify(v) == [json |-> TRUE, value |-> v]
EmptyText == [json |-> FALSE, value |-> ""]
BrokenText == [json |-> FALSE, value |-> "{"]

\* JSON.parse(text) throws a SyntaxError on text that is not JSON
ParseThrows(text) == ~text.json
Parse(text) == text.value

\* localStorage.getItem(key) is null without an item; `item ? :` takes null
\* and the empty string for false
HasItem(M, key) == key \in DOMAIN M.browser.localStorage
Truthy(M, key) == HasItem(M, key) /\ M.browser.localStorage[key] # EmptyText

SetItem(M, key, text) ==
    [M EXCEPT !.browser.localStorage = (key :> text) @@ @]

RemoveItem(M, key) ==
    [M EXCEPT !.browser.localStorage = [k \in DOMAIN @ \ {key} |-> @[k]]]

\* notifyStorageError(message): queued until flushStorageErrors() has run,
\* dispatched as a state:storage-error event after. When the queue already
\* holds MaxErrors messages the step is outside the bounds of the model.
NotifyStorageError(M, message) ==
    IF ~M.stateManager.isInitialized
    THEN IF Len(M.stateManager.errorQueue) >= MaxErrors
         THEN [M EXCEPT !.fits = FALSE]
         ELSE [M EXCEPT !.stateManager.errorQueue = Append(@, message)]
    ELSE [M EXCEPT !.browser.dispatched = Append(@, message)]

\* saveToStorage as it would be with a catch block that only logs
SaveToStorageUnreported(M, key, value) ==
    IF M.fault = "none" THEN SetItem(M, key, Stringify(value)) ELSE M

\* saveToStorage(key, value)
SaveToStorage(M, key, value) ==
    IF M.fault = "none" THEN SetItem(M, key, Stringify(value))
    ELSE IF M.fault = "QuotaExceededError"
    THEN NotifyStorageError(M, ErrQuota)
    ELSE NotifyStorageError(M, ErrSaveFailed)

\* loadFromStorage(key, defaultValue): the value it returns, and what it
\* does to the store and the error queue
Loaded(M, key, defaultValue) ==
    IF M.fault = "SecurityError" THEN defaultValue
    ELSE IF ~Truthy(M, key) THEN defaultValue
    ELSE IF ParseThrows(M.browser.localStorage[key]) THEN defaultValue
    ELSE Parse(M.browser.localStorage[key])

\* loadFromStorage as it would be without the removeItem in its catch
LoadFromStorageKeepsKey(M, key) ==
    IF M.fault = "SecurityError" THEN M
    ELSE IF Truthy(M, key) /\ ParseThrows(M.browser.localStorage[key])
    THEN NotifyStorageError(M, ErrCorrupted)
    ELSE M

LoadFromStorage(M, key) ==
    IF M.fault = "SecurityError" THEN M
    ELSE IF Truthy(M, key) /\ ParseThrows(M.browser.localStorage[key])
    THEN RemoveItem(NotifyStorageError(M, ErrCorrupted), key)
    ELSE M

\* getState(): a copy of this.state
GetState(M) ==
    [currentView |-> M.stateManager.currentView,
     onboardingComplete |-> M.stateManager.onboardingComplete,
     pairedDevices |-> M.pairedDevices,
     activeDeviceId |-> M.activeDeviceId,
     discoveredDevices |-> M.stateManager.discoveredDevices,
     connectionState |-> M.connectionState,
     isScanning |-> M.isScanning,
     settings |-> M.stateManager.settings,
     deviceStatus |-> M.stateManager.deviceStatus,
     lastCommand |-> M.lastCommand,
     commandQueue |-> M.commandQueue]

\* notifyListeners() as it would be if it walked the listeners from the
\* last subscribed to the first
NotifyListenersBackwards(M) ==
    [M EXCEPT !.browser.notified =
        @ \o [i \in 1..Len(M.stateManager.listeners) |->
                 [listener |-> M.stateManager.listeners[
                                  Len(M.stateManager.listeners) + 1 - i],
                  state |-> GetState(M)]]]

\* notifyListeners(): listeners.forEach(listener => listener(getState()))
NotifyListeners(M) ==
    IF M.stateManager.listeners = <<>> THEN M
    ELSE [M EXCEPT !.browser.notified =
             @ \o [i \in 1..Len(M.stateManager.listeners) |->
                      [listener |-> M.stateManager.listeners[i],
                       state |-> GetState(M)]]]

\* A value passed to updateState: a plain object with the fields given, or
\* one of the other kinds of JavaScript value.
Object(fields) == [is |-> "object", fields |-> fields]
Value(kind) == [is |-> kind, fields |-> <<>>]

\* typeof changes
TypeOf(changes) ==
    IF changes.is \in {"object", "null", "array"} THEN "object" ELSE changes.is

\* {...this.state, ...changes}: the fields of changes replace those of the
\* state
Merged(M, changes) ==
    LET has == DOMAIN changes
    IN [M EXCEPT
          !.pairedDevices =
              IF "pairedDevices" \in has THEN changes.pairedDevices ELSE @,
          !.activeDeviceId =
              IF "activeDeviceId" \in has THEN changes.activeDeviceId ELSE @,
          !.connectionState =
              IF "connectionState" \in has
              THEN changes.connectionState ELSE @,
          !.isScanning =
              IF "isScanning" \in has THEN changes.isScanning ELSE @,
          !.lastCommand =
              IF "lastCommand" \in has THEN changes.lastCommand ELSE @,
          !.commandQueue =
              IF "commandQueue" \in has THEN changes.commandQueue ELSE @,
          !.stateManager =
              [@ EXCEPT
                 !.currentView =
                     IF "currentView" \in has
                     THEN changes.currentView ELSE @,
                 !.onboardingComplete =
                     IF "onboardingComplete" \in has
                     THEN changes.onboardingComplete ELSE @,
                 !.discoveredDevices =
                     IF "discoveredDevices" \in has
                     THEN changes.discoveredDevices ELSE @,
                 !.settings =
                     IF "settings" \in has THEN changes.settings ELSE @,
                 !.deviceStatus =
                     IF "deviceStatus" \in has
                     THEN changes.deviceStatus ELSE @]]

\* updateState(changes) as it was before the validation was added: the
\* spread of a value that is not an object adds no field of the state
UpdateStateUnvalidated(M, changes) ==
    NotifyListeners(Merged(M, changes.fields))

\* updateState(changes)
UpdateState(M, changes) ==
    IF TypeOf(changes) # "object" \/ changes.is = "null"
       \/ changes.is = "array"
    THEN M
    ELSE NotifyListeners(Merged(M, changes.fields))

\* The methods below pass updateState an object literal, which passes its
\* validation: the fields of the literal are merged into the state and the
\* listeners are notified.
SetCurrentView(M, viewName) ==
    NotifyListeners([M EXCEPT !.stateManager.currentView = viewName])

SetConnectionState(M, s) == NotifyListeners([M EXCEPT !.connectionState = s])

SetScanning(M, b) == NotifyListeners([M EXCEPT !.isScanning = b])

SetDiscoveredDevices(M, devices) ==
    NotifyListeners([M EXCEPT !.stateManager.discoveredDevices = devices])

\* setActiveDevice as it would be if it kept the id in memory only
SetActiveDeviceUnsaved(M, id) ==
    NotifyListeners([M EXCEPT !.activeDeviceId = id])

\* setActiveDevice
SetActiveDevice(M, id) ==
    SaveToStorage(NotifyListeners([M EXCEPT !.activeDeviceId = id]),
                  ACTIVE_DEVICE_ID, id)

\* completeOnboarding as it would be if it kept the flag in memory only
CompleteOnboardingUnsaved(M) ==
    NotifyListeners([M EXCEPT !.stateManager.onboardingComplete = TRUE,
                              !.stateManager.currentView = DEVICE_LIST])

\* completeOnboarding
CompleteOnboarding(M) ==
    SaveToStorage(
        NotifyListeners([M EXCEPT !.stateManager.onboardingComplete = TRUE,
                                  !.stateManager.currentView = DEVICE_LIST]),
        ONBOARDING_COMPLETE, TRUE)

DeviceExists(list, id) == \E i \in 1..Len(list) : list[i].id = id

\* addPairedDevice as it would be without the look for the id
AddPairedDeviceUnchecked(M, dev) ==
    LET updated == Append(M.pairedDevices, dev)
    IN SaveToStorage(NotifyListeners([M EXCEPT !.pairedDevices = updated]),
                     PAIRED_DEVICES, updated)

\* addPairedDevice: no-op if a device with that id exists
AddPairedDevice(M, dev) ==
    IF DeviceExists(M.pairedDevices, dev.id) THEN M
    ELSE LET updated == Append(M.pairedDevices, dev)
         IN SaveToStorage(
                NotifyListeners([M EXCEPT !.pairedDevices = updated]),
                PAIRED_DEVICES, updated)

\* updateDeviceName: {...d, customName} for the entries with that id
UpdateDeviceName(M, deviceId, customName) ==
    LET updated == [i \in 1..Len(M.pairedDevices) |->
                       IF M.pairedDevices[i].id = deviceId
                       THEN [customName |-> customName] @@ M.pairedDevices[i]
                       ELSE M.pairedDevices[i]]
    IN SaveToStorage(NotifyListeners([M EXCEPT !.pairedDevices = updated]),
                     PAIRED_DEVICES, updated)

\* pairedDevices.filter(d => d.id !== deviceId)
RECURSIVE Without(_, _)
Without(list, id) ==
    IF list = <<>> THEN <<>>
    ELSE IF Head(list).id = id THEN Without(Tail(list), id)
    ELSE <<Head(list)>> \o Without(Tail(list), id)

\* removePairedDevice
RemovePairedDevice(M, deviceId) ==
    LET updated == Without(M.pairedDevices, deviceId)
        M1 == SaveToStorage(
                  NotifyListeners([M EXCEPT !.pairedDevices = updated]),
                  PAIRED_DEVICES, updated)
    IN IF M1.activeDeviceId = deviceId THEN SetActiveDevice(M1, NULL) ELSE M1

\* updateUserSetting(key, value)
UpdateUserSetting(M, key, value) ==
    LET updated == [M.stateManager.settings EXCEPT ![key] = value]
    IN SaveToStorage(
           NotifyListeners([M EXCEPT !.stateManager.settings = updated]),
           USER_SETTINGS, updated)

\* updateDeviceStatus(deviceId, status): the status is merged into the one
\* the device has
UpdateDeviceStatus(M, deviceId, status) ==
    LET old == IF deviceId \in DOMAIN M.stateManager.deviceStatus
               THEN M.stateManager.deviceStatus[deviceId] ELSE <<>>
        updated == [d \in DOMAIN M.stateManager.deviceStatus \cup {deviceId} |->
                       IF d = deviceId THEN status @@ old
                       ELSE M.stateManager.deviceStatus[d]]
    IN SaveToStorage(
           NotifyListeners([M EXCEPT !.stateManager.deviceStatus = updated]),
           DEVICE_STATUS, updated)

\* the trim as it would be with slice(0, MAX), which keeps the oldest
TrimQueueKeepsOldest(q) ==
    IF Len(q) > MaxQueue THEN SubSeq(q, 1, MaxQueue) ELSE q

\* updatedQueue.slice(-MAX) when longer than MAX
TrimQueue(q) ==
    IF Len(q) > MaxQueue THEN SubSeq(q, Len(q) - MaxQueue + 1, Len(q)) ELSE q

\* recordCommand as it would be if it kept the history in the store
RecordCommandPersisted(M, command) ==
    LET updated == TrimQueue(Append(M.commandQueue, command))
    IN SaveToStorage(NotifyListeners([M EXCEPT !.lastCommand = command,
                                              !.commandQueue = updated]),
                     "command-queue", updated)

\* recordCommand
RecordCommand(M, command) ==
    NotifyListeners([M EXCEPT !.lastCommand = command,
                              !.commandQueue =
                                  TrimQueue(Append(M.commandQueue, command))])

\* clearCommandQueue
ClearCommandQueue(M) == NotifyListeners([M EXCEPT !.commandQueue = <<>>])

\* clearStorage(): removeItem for every key of STORAGE_KEYS; nothing
\* catches what localStorage throws
ClearStorage(M) ==
    IF M.fault = "SecurityError" THEN [M EXCEPT !.call.threw = TRUE]
    ELSE [M EXCEPT !.browser.localStorage =
                      [k \in DOMAIN @ \ STORAGE_KEYS |-> @[k]]]

\* getOnboardingState(): this.state.onboardingComplete ?? loadFromStorage(..)
GetOnboardingState(M) ==
    IF M.stateManager.onboardingComplete \in BOOLEAN
    THEN [M EXCEPT !.call.returned = M.stateManager.onboardingComplete]
    ELSE [LoadFromStorage(M, ONBOARDING_COMPLETE) EXCEPT
             !.call.returned = Loaded(M, ONBOARDING_COMPLETE, FALSE)]

\* flushStorageErrors() as it would be without `this.errorQueue = []`
FlushStorageErrorsKeepsQueue(M) ==
    [M EXCEPT !.stateManager.isInitialized = TRUE,
              !.browser.dispatched = @ \o M.stateManager.errorQueue]

\* flushStorageErrors()
FlushStorageErrors(M) ==
    [M EXCEPT !.stateManager.isInitialized = TRUE,
              !.browser.dispatched = @ \o M.stateManager.errorQueue,
              !.stateManager.errorQueue = <<>>]

\* subscribe(listener), and the function it returns
Subscribe(M, listener) == [M EXCEPT !.stateManager.listeners = Append(@, listener)]

Unsubscribe(M, listener) ==
    [M EXCEPT !.stateManager.listeners = SelectSeq(@, LAMBDA l : l # listener)]

\* A notification pass with listeners that act: does[l] is the listener that
\* l unsubscribes when it is called ("none": it only looks at the snapshot).
\* The pass as it would go if the function subscribe returns took the
\* listener out of the array in place (splice): forEach visits the indices
\* of the array as it is when it comes to them
PassOverSplicedArray(M, array, i, does) ==
    LET F[k \in 0..Len(array)] ==
           IF k = 0 THEN M
           ELSE IF k > Len(F[k - 1].stateManager.listeners) THEN F[k - 1]
           ELSE LET l == F[k - 1].stateManager.listeners[k]
                    M1 == [F[k - 1] EXCEPT
                              !.browser.notified =
                                  Append(@, [listener |-> l,
                                             state |-> GetState(F[k - 1])])]
                IN IF does[l] = "none" THEN M1 ELSE Unsubscribe(M1, does[l])
    IN F[Len(array)]

\* this.listeners.forEach(listener => listener(this.getState())), from the
\* i-th listener on: forEach walks the array that this.listeners was when
\* the pass began; the function subscribe returns assigns a new, filtered
\* array to this.listeners and leaves that one as it is
Pass(M, array, i, does) ==
    LET F[k \in 0..Len(array)] ==
           IF k < i THEN M
           ELSE LET l == array[k]
                    M1 == [F[k - 1] EXCEPT
                              !.browser.notified =
                                  Append(@, [listener |-> l,
                                             state |-> GetState(F[k - 1])])]
                IN IF does[l] = "none" THEN M1 ELSE Unsubscribe(M1, does[l])
    IN F[Len(array)]

\* The constructor of StateManager (the module is evaluated once in the
\* life of a page): this.state is built from the store, slot by slot in the
\* order of the object literal; no listener is subscribed yet.
Constructor(M) ==
    LET M1 == LoadFromStorage(
                  [M EXCEPT !.stateManager.listeners = <<>>,
                            !.stateManager.isInitialized = FALSE,
                            !.stateManager.errorQueue = <<>>],
                  ONBOARDING_COMPLETE)
        done == Loaded(M, ONBOARDING_COMPLETE, FALSE)
        M2 == LoadFromStorage(M1, PAIRED_DEVICES)
        M3 == LoadFromStorage(M2, ACTIVE_DEVICE_ID)
        M4 == LoadFromStorage(M3, USER_SETTINGS)
        M5 == LoadFromStorage(M4, DEVICE_STATUS)
    IN [M5 EXCEPT
          !.stateManager.currentView =
              IF done THEN DEVICE_LIST ELSE ONBOARDING,
          !.stateManager.onboardingComplete = done,
          !.pairedDevices = Loaded(M, PAIRED_DEVICES, <<>>),
          !.activeDeviceId = Loaded(M, ACTIVE_DEVICE_ID, NULL),
          !.stateManager.discoveredDevices = <<>>,
          !.connectionState = DISCONNECTED,
          !.isScanning = FALSE,
          !.stateManager.settings =
              Loaded(M, USER_SETTINGS, DEFAULT_SETTINGS),
          !.stateManager.deviceStatus = Loaded(M, DEVICE_STATUS, <<>>),
          !.lastCommand = NULL,
          !.commandQueue = <<>>]

\* The getters that return a container: getState() returns {...this.state},
\* getPairedDevices() and getDiscoveredDevices() [...array],
\* getUserSettings() {...settings}, getDeviceStatus(id) {...status} or {}.
\* The spread makes a new object or array with the members of the original:
\* a member that is an array or an object is the original's own, not a copy.
GetPairedDevices(M) == M.pairedDevices
GetDiscoveredDevices(M) == M.stateManager.discoveredDevices
GetUserSettings(M) == M.stateManager.settings
GetDeviceStatus(M, deviceId) ==
    IF deviceId \in DOMAIN M.stateManager.deviceStatus
    THEN M.stateManager.deviceStatus[deviceId] ELSE <<>>

\* The members of what a getter returns that are arrays or objects of the
\* state: the fields of the snapshot that hold one, and the entries of a
\* device list. The settings and a status hold booleans and numbers here.
SharedMembers(M, getter) ==
    IF getter = "getState"
    THEN {"pairedDevices", "discoveredDevices", "settings", "deviceStatus",
          "commandQueue"}
    ELSE IF getter = "getPairedDevices" THEN 1..Len(M.pairedDevices)
    ELSE IF getter = "getDiscoveredDevices"
    THEN 1..Len(M.stateManager.discoveredDevices)
    ELSE {}

\* The client changes, in the container a getter has just returned, the
\* member itself (returned[member] = value: the container is the client's
\* own, the state keeps its member) ...
AssignMember(M, returned, member, value) ==
    [M EXCEPT !.call.returned = (member :> value) @@ returned]

\* ... or pushes an entry on the array that is the member pairedDevices of
\* getState(): the array is this.state.pairedDevices
PushOnPairedDevices(M, returned, dev) ==
    [M EXCEPT !.pairedDevices = Append(@, dev),
              !.call.returned =
                  [returned EXCEPT !.pairedDevices = Append(@, dev)]]

\* ... or sets a field of the object that is an entry of getPairedDevices():
\* the object is the entry of this.state.pairedDevices
SetFieldOfPairedDevice(M, returned, i, field, value) ==
    [M EXCEPT !.pairedDevices[i] = (field :> value) @@ @,
              !.call.returned =
                  [returned EXCEPT ![i] = (field :> value) @@ @]]

\* ... or sets a field of the object that is the member settings of
\* getState(): the object is this.state.settings
SetFieldOfSettings(M, returned, key, value) ==
    [M EXCEPT !.stateManager.settings[key] = value,
              !.call.returned = [returned EXCEPT !.settings[key] = value]]


(* ------------------------------ platform -------------------------------- *)
AddThread(B, t) == B (+) SetToBag({t})
RemoveThread(B, t) == B (-) SetToBag({t})

RECURSIVE Copies(_, _)
Copies(B, S) ==
    IF S = {} THEN 0
    ELSE LET x == CHOOSE y \in S : TRUE IN B[x] + Copies(B, S \ {x})

\* A discovery on the link to d that is still pending will fail.
Doom(t, d) ==
    IF t.st = "disc" /\ t.dev = d THEN [t EXCEPT !.doomed = TRUE] ELSE t

DoomThreads(B, d) ==
    [y \in {Doom(x, d) : x \in BagToSet(B)} |->
        Copies(B, {x \in BagToSet(B) : Doom(x, d) = y})]

\* this.reconnectTimeout no longer holds the id of timer t.
Forget(t) == [t EXCEPT !.current = FALSE]

ForgetTimers(B) ==
    [y \in {Forget(x) : x \in BagToSet(B)} |->
        Copies(B, {x \in BagToSet(B) : Forget(x) = y})]

\* The link to device d is gone: gatt.connected is false, and whatever was
\* resolved or is being resolved or written on that link is invalid.
LinkDown(M, d) ==
    [M EXCEPT
       !.gattConnected[d] = FALSE,
       !.characteristic = IF @.dev = d THEN [@ EXCEPT !.stale = TRUE] ELSE @,
       !.userOp = IF @.pc = "disc" /\ @.dev = d
                  THEN [@ EXCEPT !.doomed = TRUE] ELSE @,
       !.threads = DoomThreads(@, d),
       !.battery = IF @.dev = d THEN [@ EXCEPT !.doomed = TRUE] ELSE @,
       !.writes = [i \in 1..Len(@) |->
                      IF @[i].dev = d THEN [@[i] EXCEPT !.doomed = TRUE]
                      ELSE @[i]]]

IsTimer(t) == t.st = "timerA" \/ t.st = "timerR"

\* clearTimeout(this.reconnectTimeout): cancels the timer if it is pending
ClearTimeout(M) ==
    LET Cleared(t) == IsTimer(t) /\ t.current
    IN [M EXCEPT !.threads =
          [t \in {x \in BagToSet(@) : ~Cleared(x)} |-> @[t]]]

\* this.reconnectTimeout = setTimeout(callback, delay): the id of a timer
\* that was held before is overwritten. When the model already follows
\* MaxThreads timers and callbacks, the step is outside its bounds.
SetReconnectTimeout(M, kind, delay) ==
    IF BagCardinality(M.threads) >= MaxThreads
    THEN [M EXCEPT !.fits = FALSE]
    ELSE [M EXCEPT
            !.threads = AddThread(ForgetTimers(@), Timer(kind)),
            !.reconnectTimeout = PendingTimer,
            !.episode = IF @.active
                        THEN [@ EXCEPT !.waited = @ + delay]
                        ELSE @]

(* --------------------------- BluetoothManager --------------------------- *)
\* The clean-up both give-up branches of onDisconnected share.
GiveUpCleanup(M) ==
    SetActiveDevice(
        [M EXCEPT !.device = NULL, !.gattServer = NULL,
                  !.characteristic = NoCharacteristic,
                  !.reconnectAttempts = 0,
                  !.gaveUp = TRUE,
                  !.episode = IF @.active THEN [@ EXCEPT !.done = TRUE] ELSE @],
        NULL)

\* onDisconnected(), up to the setTimeout that schedules the reconnect
\* callback
OnDisconnected(M) ==
    LET M1 == SetConnectionState(M, DISCONNECTED)
    IN IF M1.device # NULL /\ M1.reconnectAttempts < maxReconnectAttempts
       THEN LET delay == BackoffDelay(M1.reconnectAttempts)
                M2 == [M1 EXCEPT !.reconnectAttempts = @ + 1]
                M3 == IF M2.reconnectTimeout # NoTimer
                      THEN [ClearTimeout(M2) EXCEPT !.reconnectTimeout = NoTimer]
                      ELSE M2
            IN SetReconnectTimeout(M3, "timerA", delay)
       ELSE GiveUpCleanup(M1)

\* The catch block of the reconnect callback (the callback itself is no
\* longer among the threads of M).
ReconnectFailed(M) ==
    IF M.reconnectAttempts < maxReconnectAttempts
    THEN LET nextDelay == BackoffDelay(M.reconnectAttempts)
         IN SetReconnectTimeout([M EXCEPT !.reconnectAttempts = @ + 1],
                                "timerR", nextDelay)
    ELSE GiveUpCleanup(M)

\* The platform dispatches gattserverdisconnected at device d: every listener
\* requestDevice installed on it runs onDisconnected.
RECURSIVE RunListeners(_, _)
RunListeners(M, n) == IF n = 0 THEN M ELSE RunListeners(OnDisconnected(M), n - 1)

FireDisconnected(M, d) == RunListeners(M, M.disconnectListeners[d])


(* ------------------------- requestDevice(options) ----------------------- *)
\* A call of any of the four operations is a manual intervention.
Called(M) == [M EXCEPT !.episode = NoEpisode]

\* requestDevice() as it would be with the support check inside the inner
\* try, whose catch sets the connection state to Error
RequestDeviceCallCheckedLate(M) ==
    IF M.operationInProgress
    THEN [M EXCEPT !.ret = Ret("requestDevice", ErrBusy)]
    ELSE IF ~M.isSupported
    THEN [SetConnectionState(M, ERROR) EXCEPT
            !.ret = Ret("requestDevice", ErrUnsupported)]
    ELSE [SetScanning(M, TRUE) EXCEPT
            !.operationInProgress = TRUE,
            !.userOp = [op |-> "requestDevice", pc |-> "chooser",
                        dev |-> NULL, doomed |-> FALSE]]

\* requestDevice() from its start to the await of the device chooser; when
\* the Bluetooth API is absent, to the throw and the finally that frees the
\* guard
RequestDeviceCall(M) ==
    IF M.operationInProgress
    THEN [M EXCEPT !.ret = Ret("requestDevice", ErrBusy)]
    ELSE IF ~M.isSupported
    THEN [M EXCEPT !.ret = Ret("requestDevice", ErrUnsupported)]
    ELSE [SetScanning(M, TRUE) EXCEPT
            !.operationInProgress = TRUE,
            !.userOp = [op |-> "requestDevice", pc |-> "chooser",
                        dev |-> NULL, doomed |-> FALSE]]

\* navigator.bluetooth.requestDevice() resolved with the handle of d
RequestDeviceResolved(M, d) ==
    [SetScanning(
        [M EXCEPT !.device = d,
                  !.disconnectListeners[d] = @ + 1,
                  !.ret = Ret("requestDevice", "ok")],
        FALSE)
     EXCEPT !.operationInProgress = FALSE, !.userOp = NoOp]

\* navigator.bluetooth.requestDevice() rejected with an error of this name
RequestDeviceRejected(M, name) ==
    [SetScanning(
        [SetConnectionState(M, ERROR)
           EXCEPT !.ret = Ret("requestDevice", RequestErrorMessage(name))],
        FALSE)
     EXCEPT !.operationInProgress = FALSE, !.userOp = NoOp]

(* ------------------------------- connect() ------------------------------ *)
\* connect() as it would be without the operationInProgress check
ConnectCallUnguarded(M) ==
    IF M.device = NULL
    THEN [M EXCEPT !.ret = Ret("connect", ErrNoDeviceSelected)]
    ELSE [SetConnectionState(M, CONNECTING) EXCEPT
            !.operationInProgress = TRUE,
            !.userOp = [op |-> "connect", pc |-> "gatt",
                        dev |-> M.device, doomed |-> FALSE]]

\* connect() from its start to the await of device.gatt.connect()
ConnectCall(M) ==
    IF M.operationInProgress
    THEN [M EXCEPT !.ret = Ret("connect", ErrBusy)]
    ELSE IF M.device = NULL
    THEN [M EXCEPT !.ret = Ret("connect", ErrNoDeviceSelected)]
    ELSE [SetConnectionState(M, CONNECTING) EXCEPT
            !.operationInProgress = TRUE,
            !.userOp = [op |-> "connect", pc |-> "gatt",
                        dev |-> M.device, doomed |-> FALSE]]

\* device.gatt.connect() resolved: the link to the device is up; connect()
\* goes on to the await of the characteristic discovery
ConnectGattResolved(M) ==
    LET d == M.userOp.dev
    IN [M EXCEPT !.gattConnected[d] = TRUE,
                 !.gattServer = d,
                 !.reconnectAttempts = 0,
                 !.userOp = [op |-> "connect", pc |-> "disc",
                             dev |-> d, doomed |-> FALSE]]

\* the catch block of connect() as it would be without the finally that
\* frees the guard
ConnectFailedGuardKept(M, name) ==
    [SetConnectionState(M, ERROR) EXCEPT
       !.ret = Ret("connect", ConnectErrorMessage(name)),
       !.userOp = NoOp]

\* the catch block of connect() and its finally
ConnectFailed(M, name) ==
    [SetConnectionState(M, ERROR) EXCEPT
       !.ret = Ret("connect", ConnectErrorMessage(name)),
       !.operationInProgress = FALSE, !.userOp = NoOp]

\* connect() after the characteristic discovery: found says whether the
\* discovery resolved. Reading this.device.id throws a TypeError when the
\* device handle was cleared while connect() was suspended.
ConnectFinish(M, found) ==
    LET M1 == IF found
              THEN [M EXCEPT !.characteristic = Characteristic(M.userOp.dev)]
              ELSE M
        M2 == SetConnectionState(M1, CONNECTED)
    IN IF M2.device = NULL
       THEN ConnectFailed(M2, "TypeError")
       ELSE [SetActiveDevice(
                AddPairedDevice(M2, [id |-> M2.device, connected |-> TRUE]),
                M2.device)
             EXCEPT !.ret = Ret("connect", "ok"),
                    !.operationInProgress = FALSE, !.userOp = NoOp]

(* ------------------------------ disconnect() ---------------------------- *)
\* device.gatt.disconnect() on a connected device; fire says whether the
\* platform dispatches gattserverdisconnected while tearing the link down
\* (the event is dispatched synchronously, inside the call).
GattDisconnect(M, fire) ==
    LET d == M.device
        M1 == LinkDown(M, d)
    IN IF fire THEN FireDisconnected(M1, d) ELSE M1

\* disconnect(): it awaits nothing, so the whole call is one task
DisconnectCall(M, fire) ==
    IF M.operationInProgress
    THEN [M EXCEPT !.ret = Ret("disconnect", ErrBusy)]
    ELSE LET M1 == [M EXCEPT !.operationInProgress = TRUE]
             M2 == IF M1.reconnectTimeout # NoTimer
                   THEN [ClearTimeout(M1) EXCEPT !.reconnectTimeout = NoTimer]
                   ELSE M1
             M3 == IF M2.device # NULL /\ M2.gattConnected[M2.device]
                   THEN GattDisconnect(M2, fire)
                   ELSE M2
             M4 == [M3 EXCEPT !.device = NULL, !.gattServer = NULL,
                              !.characteristic = NoCharacteristic,
                              !.reconnectAttempts = 0]
         IN [SetActiveDevice(SetConnectionState(M4, DISCONNECTED), NULL)
             EXCEPT !.operationInProgress = FALSE,
                    !.quiet = TRUE,
                    !.ret = Ret("disconnect", "ok")]

(* ------------------- the reconnect timers and callbacks ----------------- *)
\* Timer t fires and leaves the pending set; this.reconnectTimeout keeps its
\* id, which no longer names a pending timer.
TimerFired(M, t) ==
    [M EXCEPT !.threads = RemoveThread(@, t),
              !.reconnectTimeout = IF t.current THEN FiredTimer ELSE @]

\* The callback of the timer onDisconnected set, from its start to the await
\* of this.device.gatt.connect(); this.device.gatt throws a TypeError when
\* the device handle is null.
ReconnectCallback(M, t) ==
    LET M1 == SetConnectionState(TimerFired(M, t), CONNECTING)
    IN IF M1.device = NULL
       THEN ReconnectFailed(M1)
       ELSE [M1 EXCEPT
               !.threads = AddThread(@, Callback("gatt", M1.device, FALSE)),
               !.episode = IF @.active
                           THEN [@ EXCEPT !.attempts = @ + 1,
                                          !.waits = Append(@, M1.episode.waited),
                                          !.waited = 0]
                           ELSE @]

\* this.device.gatt.connect() of callback t resolved: the link is up;
\* this.gattServer = this.device.gatt, then the await of the discovery
ReconnectGattResolved(M, t) ==
    LET M1 == [M EXCEPT !.gattConnected[t.dev] = TRUE,
                        !.threads = RemoveThread(@, t),
                        !.episode = NoEpisode]
    IN IF M1.device = NULL
       THEN ReconnectFailed(M1)
       ELSE [M1 EXCEPT
               !.gattServer = M1.device,
               !.threads = AddThread(@, Callback("disc", M1.device,
                                          ~M1.gattConnected[M1.device]))]

\* this.device.gatt.connect() of callback t rejected
ReconnectGattRejected(M, t) ==
    ReconnectFailed([M EXCEPT !.threads = RemoveThread(@, t)])

\* callback t after the characteristic discovery
ReconnectFinish(M, t, found) ==
    LET M1 == IF found
              THEN [M EXCEPT !.characteristic = Characteristic(t.dev)]
              ELSE M
    IN SetConnectionState(
          [M1 EXCEPT !.reconnectAttempts = 0,
                     !.threads = RemoveThread(@, t)],
          CONNECTED)

\* The callback of the timer the catch block set: it calls onDisconnected().
RetryCallback(M, t) == OnDisconnected(TimerFired(M, t))

(* ----------------------------- sendCommand ------------------------------ *)
\* sendCommand(command) from its start to the await of writeValue()
SendCommandCall(M, command) ==
    IF M.gattServer = NULL \/ ~M.gattConnected[M.gattServer]
    THEN [M EXCEPT !.ret = Ret("sendCommand", ErrNotConnected)]
    ELSE IF M.characteristic = NoCharacteristic
    THEN [M EXCEPT !.ret = Ret("sendCommand", ErrNoCharacteristic)]
    ELSE [RecordCommand(M, command) EXCEPT
            !.writes = Append(@, [token |-> command,
                                  dev |-> M.characteristic.dev,
                                  doomed |-> M.characteristic.stale,
                                  queueBefore |-> M.commandQueue,
                                  lastBefore |-> M.lastCommand])]

RemoveAt(q, i) == [j \in 1..(Len(q) - 1) |-> IF j < i THEN q[j] ELSE q[j + 1]]

\* writeValue() resolved: sendCommand returns true
WriteResolved(M, i) ==
    [M EXCEPT !.writes = RemoveAt(@, i), !.ret = Ret("sendCommand", "ok")]

\* the catch block as it would be if it took only NetworkError for a
\* connection error
WriteRejectedNetworkOnly(M, i, name) ==
    LET M1 == [M EXCEPT !.writes = RemoveAt(@, i),
                        !.ret = Ret("sendCommand",
                                    IF name = "NetworkError" THEN ErrLost
                                    ELSE ErrSendFailed)]
    IN IF name = "NetworkError" THEN SetConnectionState(M1, ERROR) ELSE M1

\* writeValue() rejected with an error of this name: the catch block
WriteRejected(M, i, name) ==
    LET M1 == [M EXCEPT !.writes = RemoveAt(@, i),
                        !.ret = Ret("sendCommand", SendErrorMessage(name))]
    IN IF IsConnectionError(name) THEN SetConnectionState(M1, ERROR) ELSE M1

(* ------------------ sendCommandSequence(commands, options) -------------- *)
\* return results
SeqReturn(M) ==
    [M EXCEPT !.seq = [@ EXCEPT !.pc = "idle", !.outcome = "returned"],
              !.ret = Ret("sendCommandSequence", "ok")]

\* the catch block as it would be if it rethrew whatever stopOnError says
SeqFailedAlwaysThrows(M, error) ==
    [M EXCEPT !.seq = [@ EXCEPT !.failures =
                          Append(@, [command |-> M.seq.tokens[M.seq.i],
                                     error |-> error]),
                                !.pc = "idle", !.outcome = "rejected"],
              !.ret = Ret("sendCommandSequence", error)]

\* the catch block as it would be if it never rethrew
SeqFailedNeverThrows(M, error) ==
    [M EXCEPT !.seq = [@ EXCEPT !.failures =
                          Append(@, [command |-> M.seq.tokens[M.seq.i],
                                     error |-> error]),
                                !.pc = "delay"],
              !.ret = NoRet]

\* the catch block for the current command, whose sendCommand failed with
\* this error; then the await of the delay
SeqFailed(M, error) ==
    LET M1 == [M EXCEPT !.seq.failures =
                  Append(@, [command |-> M.seq.tokens[M.seq.i],
                             error |-> error])]
    IN IF M1.seq.stopOnError
       THEN [M1 EXCEPT !.seq = [@ EXCEPT !.pc = "idle", !.outcome = "rejected"],
                       !.ret = Ret("sendCommandSequence", error)]
       ELSE [M1 EXCEPT !.seq.pc = "delay", !.ret = NoRet]

\* One pass of the loop body up to an await: sendCommand(command) runs to
\* its writeValue, or fails before it.
SeqAttempt(M) ==
    LET command == M.seq.tokens[M.seq.i]
        M1 == SendCommandCall(
                 [M EXCEPT !.seq.attempts = Append(@, command)], command)
    IN IF Len(M.writes) >= MaxWrites
       THEN [M EXCEPT !.fits = FALSE]
       ELSE IF M1.ret.op = "sendCommand"
       THEN SeqFailed(M1, M1.ret.out)
       ELSE [M1 EXCEPT !.seq.pc = "write"]

\* The loop goes on with the next command, or the call returns.
SeqNext(M) ==
    LET M1 == [M EXCEPT !.seq.i = @ + 1]
    IN IF M1.seq.i > Len(M1.seq.tokens) THEN SeqReturn(M1) ELSE SeqAttempt(M1)

\* sendCommandSequence(commands, {stopOnError}) from its start to its first
\* await
SeqCall(M, commands, stopOnError) ==
    SeqNext([M EXCEPT !.seq = [NoSeq EXCEPT !.tokens = commands,
                                            !.stopOnError = stopOnError]])

\* the send succeeded, as it would go on if the delay were not awaited
\* after a success
SeqSucceededNoDelay(M) ==
    SeqNext([M EXCEPT !.seq.successes = Append(@, M.seq.tokens[M.seq.i]),
                      !.ret = NoRet])

\* results.successes.push(command), then the await of the delay
SeqSucceeded(M) ==
    [M EXCEPT !.seq = [@ EXCEPT !.successes = Append(@, M.seq.tokens[M.seq.i]),
                                !.pc = "delay"],
              !.ret = NoRet]

\* the delay has elapsed
SeqDelayElapsed(M) == SeqNext([M EXCEPT !.seq.delays = @ + 1])

(* --------------------------- getBatteryLevel() -------------------------- *)
\* What readValue() may resolve with: the bytes of the DataView.
BatteryValues == {<<>>, <<0>>, <<100>>}

\* getBatteryLevel() as it would be with a catch block that rethrows
BatteryFailedRethrows(M) ==
    [M EXCEPT !.battery = [NoBattery EXCEPT !.outcome = "rejected"],
              !.ret = Ret("getBatteryLevel", "Could not read battery level")]

\* the catch block of getBatteryLevel(): return null
BatteryFailed(M) ==
    [M EXCEPT !.battery = [NoBattery EXCEPT !.outcome = "null"],
              !.ret = Ret("getBatteryLevel", "null")]

\* getBatteryLevel() from its start to the await of getPrimaryService
GetBatteryLevelCall(M) ==
    IF M.gattServer = NULL \/ ~M.gattConnected[M.gattServer]
    THEN [M EXCEPT !.battery = [NoBattery EXCEPT !.outcome = "null"],
                   !.ret = Ret("getBatteryLevel", "null")]
    ELSE [M EXCEPT !.battery = [NoBattery EXCEPT !.pc = "service",
                                                 !.dev = M.gattServer]]

\* getPrimaryService resolved, then getCharacteristic resolved
BatteryResolved(M) ==
    [M EXCEPT !.battery.pc = IF @ = "service" THEN "characteristic"
                             ELSE "read"]

\* readValue() resolved with value: value.getUint8(0) throws a RangeError
\* on an empty DataView
BatteryRead(M, value) ==
    IF Len(value) = 0
    THEN BatteryFailed(M)
    ELSE [M EXCEPT !.battery = [NoBattery EXCEPT !.outcome = "level",
                                                 !.level = value[1]],
                   !.ret = Ret("getBatteryLevel", "level")]

(* -------------------------------- actions ------------------------------- *)
Init ==
    /\ device = NULL
    /\ gattServer = NULL
    /\ characteristic = NoCharacteristic
    /\ isSupported \in BOOLEAN
    /\ reconnectAttempts = 0
    /\ reconnectTimeout = NoTimer
    /\ operationInProgress = FALSE
    /\ connectionState = DISCONNECTED
    /\ activeDeviceId = NULL
    /\ pairedDevices = <<>>
    /\ isScanning = FALSE
    /\ commandQueue = <<>>
    /\ lastCommand = NULL
    /\ gattConnected = [d \in Devices |-> FALSE]
    /\ disconnectListeners = [d \in Devices |-> 0]
    /\ userOp = NoOp
    /\ threads = EmptyBag
    /\ writes = <<>>
    /\ ret = NoRet
    /\ gaveUp = FALSE
    /\ episode = NoEpisode
    /\ quiet = FALSE
    /\ seq = NoSeq
    /\ battery = NoBattery
    /\ issued = <<>>
    /\ stateManager = [currentView |-> ONBOARDING,
                       onboardingComplete |-> FALSE,
                       discoveredDevices |-> <<>>,
                       settings |-> DEFAULT_SETTINGS,
                       deviceStatus |-> <<>>,
                       listeners |-> <<>>,
                       isInitialized |-> FALSE,
                       errorQueue |-> <<>>]
    /\ browser = [localStorage |-> <<>>, notified |-> <<>>,
                  dispatched |-> <<>>]
    /\ call = NoCall

RequestDevice ==
    Apply(RequestDeviceCall([Called(Cur) EXCEPT !.quiet = FALSE]))

\* The user picks one of the devices in range, D.
RequestDeviceResolveIn(D) ==
    /\ userOp.op = "requestDevice"
    /\ \E d \in D :
          /\ disconnectListeners[d] < MaxListeners
          /\ Apply(RequestDeviceResolved(Cur, d))

RequestDeviceReject ==
    /\ userOp.op = "requestDevice"
    /\ \E name \in RequestErrorNames : Apply(RequestDeviceRejected(Cur, name))

Connect == Apply(ConnectCall(Called(Cur)))

ConnectGattResolve ==
    /\ userOp.op = "connect" /\ userOp.pc = "gatt"
    /\ Apply(ConnectGattResolved(Cur))

ConnectGattReject ==
    /\ userOp.op = "connect" /\ userOp.pc = "gatt"
    /\ \E name \in ConnectErrorNames : Apply(ConnectFailed(Cur, name))

ConnectDiscoveryResolve ==
    /\ userOp.op = "connect" /\ userOp.pc = "disc"
    /\ ~userOp.doomed /\ gattConnected[userOp.dev]
    /\ Apply(ConnectFinish(Cur, TRUE))

ConnectDiscoveryReject ==
    /\ userOp.op = "connect" /\ userOp.pc = "disc"
    /\ Apply(ConnectFinish(Cur, FALSE))

Disconnect == \E fire \in BOOLEAN : Apply(DisconnectCall(Called(Cur), fire))

\* The link to a connected device drops without disconnect(): the platform
\* dispatches gattserverdisconnected at the device.
StartsEpisode(d) ==
    /\ connectionState = CONNECTED /\ device = d /\ gattServer = d
    /\ disconnectListeners[d] = 1
    /\ userOp = NoOp /\ writes = <<>>
    /\ threads = EmptyBag

UnexpectedDisconnect ==
    \E d \in Devices :
       /\ gattConnected[d]
       /\ Apply(FireDisconnected(
             LinkDown([Cur EXCEPT !.episode =
                          IF StartsEpisode(d)
                          THEN [NoEpisode EXCEPT !.active = TRUE]
                          ELSE NoEpisode], d), d))

ReconnectTimerFires ==
    \E t \in BagToSet(threads) :
       /\ t.st = "timerA"
       /\ Apply(ReconnectCallback(Cur, t))

RetryTimerFires ==
    \E t \in BagToSet(threads) :
       /\ t.st = "timerR"
       /\ Apply(RetryCallback(Cur, t))

ReconnectGattResolve ==
    \E t \in BagToSet(threads) :
       /\ t.st = "gatt"
       /\ Apply(ReconnectGattResolved(Cur, t))

ReconnectGattReject ==
    \E t \in BagToSet(threads) :
       /\ t.st = "gatt"
       /\ Apply(ReconnectGattRejected(Cur, t))

ReconnectDiscoveryResolve ==
    \E t \in BagToSet(threads) :
       /\ t.st = "disc"
       /\ ~t.doomed /\ gattConnected[t.dev]
       /\ Apply(ReconnectFinish(Cur, t, TRUE))

ReconnectDiscoveryReject ==
    \E t \in BagToSet(threads) :
       /\ t.st = "disc"
       /\ Apply(ReconnectFinish(Cur, t, FALSE))

SendCommand ==
    \E command \in Tokens :
       /\ Len(writes) < MaxWrites
       /\ Apply(SendCommandCall(Called(Cur), command))

WriteResolve ==
    \E i \in 1..Len(writes) :
       /\ ~writes[i].doomed
       /\ Apply(WriteResolved(Cur, i))

WriteReject ==
    \E i \in 1..Len(writes), name \in WriteErrorNames :
       Apply(WriteRejected(Cur, i, name))

\* The connection lifecycle with one device in range and no commands sent.
OneDevice == {"d1"}
RequestDeviceResolve == RequestDeviceResolveIn(OneDevice)

Next ==
    \/ RequestDevice \/ RequestDeviceResolve \/ RequestDeviceReject
    \/ Connect \/ ConnectGattResolve \/ ConnectGattReject
    \/ ConnectDiscoveryResolve \/ ConnectDiscoveryReject
    \/ Disconnect
    \/ UnexpectedDisconnect
    \/ ReconnectTimerFires \/ RetryTimerFires
    \/ ReconnectGattResolve \/ ReconnectGattReject
    \/ ReconnectDiscoveryResolve \/ ReconnectDiscoveryReject

Spec == Init /\ [][Next]_vars

\* Commands sent during the connection lifecycle, with one device in range
\* and one reconnect timer or callback outstanding at a time; the client
\* calls requestDevice(), connect() and disconnect() only when none of them
\* is unresolved (a call the guard rejects changes nothing).
OneThread == BagCardinality(threads) <= 1
GuardPassed == ret.out # ErrBusy
InSendScope(A) == A /\ OneThread' /\ GuardPassed'

NextSend ==
    \/ InSendScope(RequestDevice)
    \/ InSendScope(RequestDeviceResolve)
    \/ InSendScope(RequestDeviceReject)
    \/ InSendScope(Connect)
    \/ InSendScope(ConnectGattResolve)
    \/ InSendScope(ConnectGattReject)
    \/ InSendScope(ConnectDiscoveryResolve)
    \/ InSendScope(ConnectDiscoveryReject)
    \/ InSendScope(Disconnect)
    \/ InSendScope(UnexpectedDisconnect)
    \/ InSendScope(ReconnectTimerFires)
    \/ InSendScope(RetryTimerFires)
    \/ InSendScope(ReconnectGattResolve)
    \/ InSendScope(ReconnectGattReject)
    \/ InSendScope(ReconnectDiscoveryResolve)
    \/ InSendScope(ReconnectDiscoveryReject)
    \/ InSendScope(SendCommand)
    \/ InSendScope(WriteResolve)
    \/ InSendScope(WriteReject)

SpecSend == Init /\ [][NextSend]_vars

\* Token lists sent with sendCommandSequence, one call at a time, while
\* the device is selected (once), connected and its link lost; in the same
\* scope as above, and with the reconnect timer an unexpected disconnect
\* sets still pending.
SequenceLists == UNION {[1..n -> SequenceTokens] : n \in 0..MaxSequence}

SendCommandSequence ==
    \E commands \in SequenceLists, stopOnError \in BOOLEAN :
       /\ seq.pc = "idle"
       /\ Apply(SeqCall(Cur, commands, stopOnError))

SeqWriteResolve ==
    /\ seq.pc = "write" /\ Len(writes) = 1
    /\ ~writes[1].doomed
    /\ Apply(SeqSucceeded(WriteResolved(Cur, 1)))

SeqWriteReject ==
    /\ seq.pc = "write" /\ Len(writes) = 1
    /\ \E name \in WriteErrorNames :
          Apply(SeqFailed(WriteRejected(Cur, 1, name), SendErrorMessage(name)))

SeqDelay ==
    /\ seq.pc = "delay"
    /\ Apply(SeqDelayElapsed(Cur))

SelectedOnce == \A d \in Devices : disconnectListeners[d] <= 1
InSeqScope(A) == A /\ OneThread' /\ GuardPassed' /\ SelectedOnce'

NextSeq ==
    \/ InSeqScope(RequestDevice)
    \/ InSeqScope(RequestDeviceResolve)
    \/ InSeqScope(Connect)
    \/ InSeqScope(ConnectGattResolve)
    \/ InSeqScope(ConnectDiscoveryResolve)
    \/ InSeqScope(ConnectDiscoveryReject)
    \/ InSeqScope(UnexpectedDisconnect)
    \/ SendCommandSequence
    \/ SeqWriteResolve
    \/ SeqWriteReject
    \/ SeqDelay

SpecSeq == Init /\ [][NextSeq]_vars

\* The connection lifecycle with two devices in range: the user may select
\* either (each at most once), and one reconnect timer or callback is
\* outstanding at a time.
RequestDeviceResolveAny == RequestDeviceResolveIn(Devices)

NextTwo ==
    \/ InSeqScope(RequestDevice)
    \/ InSeqScope(RequestDeviceResolveAny)
    \/ InSeqScope(RequestDeviceReject)
    \/ InSeqScope(Connect)
    \/ InSeqScope(ConnectGattResolve)
    \/ InSeqScope(ConnectGattReject)
    \/ InSeqScope(ConnectDiscoveryResolve)
    \/ InSeqScope(ConnectDiscoveryReject)
    \/ InSeqScope(Disconnect)
    \/ InSeqScope(UnexpectedDisconnect)
    \/ InSeqScope(ReconnectTimerFires)
    \/ InSeqScope(RetryTimerFires)
    \/ InSeqScope(ReconnectGattResolve)
    \/ InSeqScope(ReconnectGattReject)
    \/ InSeqScope(ReconnectDiscoveryResolve)
    \/ InSeqScope(ReconnectDiscoveryReject)

SpecTwo == Init /\ [][NextTwo]_vars

\* The reconnect loop with one device in range, selected once, and one
\* reconnect timer or callback outstanding at a time. A pending timer fires
\* when its delay has elapsed, and every gatt.connect() and discovery of a
\* reconnect callback settles: these steps are taken when they stay
\* possible. Nothing obliges the user to call or the link to drop.
NextLoop ==
    \/ InSeqScope(RequestDevice)
    \/ InSeqScope(RequestDeviceResolve)
    \/ InSeqScope(Connect)
    \/ InSeqScope(ConnectGattResolve)
    \/ InSeqScope(ConnectDiscoveryResolve)
    \/ InSeqScope(Disconnect)
    \/ InSeqScope(UnexpectedDisconnect)
    \/ InSeqScope(ReconnectTimerFires)
    \/ InSeqScope(RetryTimerFires)
    \/ InSeqScope(ReconnectGattResolve)
    \/ InSeqScope(ReconnectGattReject)
    \/ InSeqScope(ReconnectDiscoveryResolve)
    \/ InSeqScope(ReconnectDiscoveryReject)

LoopSettles ==
    \/ InSeqScope(ReconnectTimerFires)
    \/ InSeqScope(RetryTimerFires)
    \/ InSeqScope(ReconnectGattResolve)
    \/ InSeqScope(ReconnectGattReject)
    \/ InSeqScope(ReconnectDiscoveryResolve)
    \/ InSeqScope(ReconnectDiscoveryReject)

SpecLoop == Init /\ [][NextLoop]_vars /\ WF_vars(LoopSettles)

\* Two devices in range and commands sent: the user selects and connects
\* either device, links drop and the reconnect timer fires; at most MaxSent
\* commands are sent, one write in flight at a time.
SwitchScope == Len(commandQueue) <= MaxSent /\ Len(writes) <= 1
InSwitchScope(A) == InSeqScope(A) /\ SwitchScope'

NextSwitch ==
    \/ InSwitchScope(RequestDevice)
    \/ InSwitchScope(RequestDeviceResolveAny)
    \/ InSwitchScope(Connect)
    \/ InSwitchScope(ConnectGattResolve)
    \/ InSwitchScope(ConnectDiscoveryResolve)
    \/ InSwitchScope(Disconnect)
    \/ InSwitchScope(UnexpectedDisconnect)
    \/ InSwitchScope(ReconnectTimerFires)
    \/ InSwitchScope(SendCommand)
    \/ InSwitchScope(WriteResolve)

SpecSwitch == Init /\ [][NextSwitch]_vars

\* The battery level read, one call at a time, while the device is
\* selected (once), connected, disconnected and its link lost.
GetBatteryLevel ==
    /\ battery.pc = "idle"
    /\ Apply(GetBatteryLevelCall(Cur))

BatteryResolve ==
    /\ battery.pc \in {"service", "characteristic"}
    /\ ~battery.doomed /\ gattConnected[battery.dev]
    /\ Apply(BatteryResolved(Cur))

BatteryReadResolve ==
    /\ battery.pc = "read"
    /\ ~battery.doomed /\ gattConnected[battery.dev]
    /\ \E value \in BatteryValues : Apply(BatteryRead(Cur, value))

BatteryReject ==
    /\ battery.pc # "idle"
    /\ Apply(BatteryFailed(Cur))

NextBattery ==
    \/ InSeqScope(RequestDevice)
    \/ InSeqScope(RequestDeviceResolve)
    \/ InSeqScope(RequestDeviceReject)
    \/ InSeqScope(Connect)
    \/ InSeqScope(ConnectGattResolve)
    \/ InSeqScope(ConnectDiscoveryResolve)
    \/ InSeqScope(ConnectDiscoveryReject)
    \/ InSeqScope(Disconnect)
    \/ InSeqScope(UnexpectedDisconnect)
    \/ GetBatteryLevel
    \/ BatteryResolve
    \/ BatteryReadResolve
    \/ BatteryReject

SpecBattery == Init /\ [][NextBattery]_vars

\* What localStorage does during a call: it works, setItem throws a
\* QuotaExceededError, or every access throws a SecurityError.
Faults == {"none", "QuotaExceededError", "SecurityError"}

\* The state at the start of the client's call of the method op.
Calling(op, args, fault) ==
    [Cur EXCEPT !.fault = fault,
                !.call = [op |-> op, args |-> args, fault |-> fault,
                          returned |-> NULL, threw |-> FALSE]]

\* The command history alone: recordCommand called with any tokens.
RecordCommandCalled ==
    \E command \in QueueTokens :
       /\ Len(issued) < MaxIssued
       /\ Apply([RecordCommand(Calling("recordCommand", <<command>>, "none"),
                               command)
                   EXCEPT !.issued = Append(@, command)])

NextQueue == RecordCommandCalled

SpecQueue == Init /\ [][NextQueue]_vars

(* --------------------- the clients of StateManager ---------------------- *)
\* The entries the device-connection view and connect() add
DeviceEntries == {[id |-> d, connected |-> c] : d \in Devices, c \in BOOLEAN}
DeviceNames == {"TV"}

AddPairedDeviceCalled ==
    \E dev \in DeviceEntries, fault \in Faults :
       Apply(AddPairedDevice(Calling("addPairedDevice", <<dev>>, fault), dev))

RemovePairedDeviceCalled ==
    \E d \in Devices, fault \in Faults :
       Apply(RemovePairedDevice(Calling("removePairedDevice", <<d>>, fault),
                                d))

UpdateDeviceNameCalled ==
    \E d \in Devices, name \in DeviceNames, fault \in Faults :
       Apply(UpdateDeviceName(
                Calling("updateDeviceName", <<d, name>>, fault), d, name))

SetActiveDeviceCalled ==
    \E id \in Devices \cup {NULL}, fault \in Faults :
       Apply(SetActiveDevice(Calling("setActiveDevice", <<id>>, fault), id))

\* The subscribers: the UI controller and the application
Subscribers == {"ui", "app"}

SubscribeCalled ==
    \E l \in Subscribers :
       /\ Len(stateManager.listeners) < MaxSubscriptions
       /\ Apply(Subscribe(Calling("subscribe", <<l>>, "none"), l))

UnsubscribeCalled ==
    \E i \in 1..Len(stateManager.listeners) :
       Apply(Unsubscribe(
                Calling("unsubscribe", <<stateManager.listeners[i]>>, "none"),
                stateManager.listeners[i]))

\* What the clients pass to updateState: the views the UI navigates to, and
\* values that are no plain object.
Views == {ONBOARDING, DEVICE_CONNECTION, DEVICE_LIST, MAIN_REMOTE, SETTINGS}
InvalidChanges ==
    {Value(kind) : kind \in {"null", "array", "undefined", "string",
                             "number", "boolean", "function"}}
ValidChanges == {Object([currentView |-> v]) : v \in {DEVICE_LIST, SETTINGS}}

UpdateStateCalled ==
    \E changes \in InvalidChanges \cup ValidChanges :
       Apply(UpdateState(Calling("updateState", <<changes>>, "none"),
                         changes))

SetCurrentViewCalled ==
    \E v \in Views :
       Apply(SetCurrentView(Calling("setCurrentView", <<v>>, "none"), v))

CompleteOnboardingCalled ==
    \E fault \in Faults :
       Apply(CompleteOnboarding(Calling("completeOnboarding", <<>>, fault)))

\* The store works.
StoreWorks == call.fault = "none"
WhileStoreWorks(A) == A /\ StoreWorks'

\* The paired devices and the active device, with subscribers watching.
NextPaired ==
    \/ WhileStoreWorks(AddPairedDeviceCalled)
    \/ WhileStoreWorks(RemovePairedDeviceCalled)
    \/ WhileStoreWorks(UpdateDeviceNameCalled)
    \/ WhileStoreWorks(SetActiveDeviceCalled)
    \/ SubscribeCalled
    \/ UnsubscribeCalled

SpecPaired == Init /\ [][NextPaired]_vars

\* The subscribers and the mutations they are notified of.
NextNotify ==
    \/ SubscribeCalled
    \/ UnsubscribeCalled
    \/ UpdateStateCalled
    \/ WhileStoreWorks(CompleteOnboardingCalled)
    \/ WhileStoreWorks(SetActiveDeviceCalled)
    \/ WhileStoreWorks(RemovePairedDeviceCalled)

SpecNotify == Init /\ [][NextNotify]_vars

\* What the settings view passes to updateUserSetting (its two toggles), and
\* the status kept for a device (its battery level)
SettingToggles == {"hapticFeedback", "invertYAxis"}
DeviceStatuses == {[battery |-> 80]}

UpdateUserSettingCalled ==
    \E key \in SettingToggles, value \in BOOLEAN, fault \in Faults :
       Apply(UpdateUserSetting(
                Calling("updateUserSetting", <<key, value>>, fault),
                key, value))

UpdateDeviceStatusCalled ==
    \E d \in Devices, status \in DeviceStatuses, fault \in Faults :
       Apply(UpdateDeviceStatus(
                Calling("updateDeviceStatus", <<d, status>>, fault),
                d, status))

\* The page is loaded again while the BluetoothManager is as it was
\* constructed: the module is evaluated anew and the constructor reads the
\* store, which works or throws a SecurityError at every access.
Restart ==
    /\ device = NULL
    /\ gattServer = NULL
    /\ reconnectAttempts = 0
    /\ reconnectTimeout = NoTimer
    /\ userOp = NoOp
    /\ threads = EmptyBag
    /\ writes = <<>>
    /\ seq.pc = "idle"
    /\ battery.pc = "idle"
    /\ \E fault \in {"none", "SecurityError"} :
          Apply(Constructor(Calling("constructor", <<>>, fault)))

\* The persisted fields, the calls that save them, and restarts, over a
\* store that can be read and is full at times: d1 is paired from the
\* device-connection view (connected: false), the status kept is that of
\* d1, and of the settings the haptic toggle is used.
StoreScope ==
    /\ call.fault # "SecurityError"
    /\ \A i \in 1..Len(pairedDevices) :
          pairedDevices[i].id = "d1" /\ ~pairedDevices[i].connected
    /\ DOMAIN stateManager.deviceStatus \subseteq {"d1"}
    /\ ~stateManager.settings.invertYAxis

InStoreScope(A) == A /\ StoreScope'

NextStore ==
    \/ InStoreScope(CompleteOnboardingCalled)
    \/ WhileStoreWorks(InStoreScope(AddPairedDeviceCalled))
    \/ WhileStoreWorks(InStoreScope(RemovePairedDeviceCalled))
    \/ WhileStoreWorks(InStoreScope(UpdateDeviceNameCalled))
    \/ InStoreScope(SetActiveDeviceCalled)
    \/ WhileStoreWorks(InStoreScope(UpdateUserSettingCalled))
    \/ WhileStoreWorks(InStoreScope(UpdateDeviceStatusCalled))
    \/ InStoreScope(Restart)

SpecStore == Init /\ [][NextStore]_vars

\* What the Link Manager passes to setDiscoveredDevices (nothing found, or
\* the devices of its scan) and to setConnectionState
DiscoveredLists == {<<>>, <<[id |-> "d1", signal |-> 85]>>}
ConnectionStates == {DISCONNECTED, CONNECTING, CONNECTED, ERROR}

ClearCommandQueueCalled ==
    Apply(ClearCommandQueue(Calling("clearCommandQueue", <<>>, "none")))

SetDiscoveredDevicesCalled ==
    \E devices \in DiscoveredLists :
       Apply(SetDiscoveredDevices(
                Calling("setDiscoveredDevices", <<devices>>, "none"),
                devices))

SetScanningCalled ==
    \E b \in BOOLEAN :
       Apply(SetScanning(Calling("setScanning", <<b>>, "none"), b))

SetConnectionStateCalled ==
    \E s \in ConnectionStates :
       Apply(SetConnectionState(Calling("setConnectionState", <<s>>, "none"),
                                s))

\* The fields that are not persisted, next to one that is, across restarts:
\* the commands recorded are all the same token.
TransientScope == \A i \in 1..Len(issued) : issued[i] = "ok"

InTransientScope(A) == A /\ TransientScope'

NextTransient ==
    \/ InTransientScope(RecordCommandCalled)
    \/ ClearCommandQueueCalled
    \/ SetDiscoveredDevicesCalled
    \/ SetScanningCalled
    \/ SetConnectionStateCalled
    \/ WhileStoreWorks(SetActiveDeviceCalled)
    \/ WhileStoreWorks(Restart)

SpecTransient == Init /\ [][NextTransient]_vars

\* The slots read here, and the default the constructor gives for each
LoadKeys == {ACTIVE_DEVICE_ID, USER_SETTINGS}
DefaultOf(key) == IF key = ACTIVE_DEVICE_ID THEN NULL ELSE DEFAULT_SETTINGS

LoadFromStorageCalled ==
    \E key \in LoadKeys, fault \in {"none", "SecurityError"} :
       LET M == Calling("loadFromStorage", <<key, DefaultOf(key)>>, fault)
       IN Apply([LoadFromStorage(M, key) EXCEPT
                    !.call.returned = Loaded(M, key, DefaultOf(key))])

\* Something other than the StateManager leaves text that is not JSON under
\* a key of the store.
ItemWrittenOutside ==
    \E key \in LoadKeys, text \in {EmptyText, BrokenText} :
       Apply(SetItem(Cur, key, text))

FlushStorageErrorsCalled ==
    Apply(FlushStorageErrors(Calling("flushStorageErrors", <<>>, "none")))

\* Reads of a store that holds what the StateManager saved or text left by
\* something else.
NextLoad ==
    \/ LoadFromStorageCalled
    \/ ItemWrittenOutside
    \/ FlushStorageErrorsCalled
    \/ WhileStoreWorks(SetActiveDeviceCalled)
    \/ WhileStoreWorks(Restart)

SpecLoad == Init /\ [][NextLoad]_vars

\* The storage errors: saves that fail, loads of text that is not JSON, and
\* the flush of the queue, across restarts.
NextErrors ==
    \/ SetActiveDeviceCalled
    \/ LoadFromStorageCalled
    \/ ItemWrittenOutside
    \/ FlushStorageErrorsCalled
    \/ WhileStoreWorks(Restart)

SpecErrors == Init /\ [][NextErrors]_vars

GetOnboardingStateCalled ==
    \E fault \in {"none", "SecurityError"} :
       Apply(GetOnboardingState(Calling("getOnboardingState", <<>>, fault)))

ClearStorageCalled ==
    \E fault \in {"none", "SecurityError"} :
       Apply(ClearStorage(Calling("clearStorage", <<>>, fault)))

\* The onboarding flag: the calls that read and set it, the views the user
\* moves between, full resets of the store and restarts, over a store that
\* may fail.
NextOnboarding ==
    \/ GetOnboardingStateCalled
    \/ CompleteOnboardingCalled
    \/ SetCurrentViewCalled
    \/ SetActiveDeviceCalled
    \/ ClearStorageCalled
    \/ Restart

SpecOnboarding == Init /\ [][NextOnboarding]_vars

\* A client takes a container from a getter and changes it in the same
\* task: a member of the container itself, or the array or object that a
\* member of it is.
GetterNames ==
    {"getState", "getPairedDevices", "getDiscoveredDevices",
     "getUserSettings", "getDeviceStatus"}

GetStateMemberAssigned ==
    \E id \in Devices :
       LET M == Calling("getState", <<"activeDeviceId", id>>, "none")
       IN Apply(AssignMember(M, GetState(M), "activeDeviceId", id))

GetPairedDevicesEntryAssigned ==
    \E i \in 1..Len(pairedDevices), dev \in DeviceEntries :
       LET M == Calling("getPairedDevices", <<i, dev>>, "none")
       IN Apply(AssignMember(M, GetPairedDevices(M), i, dev))

GetDiscoveredDevicesEntryAssigned ==
    \E i \in 1..Len(stateManager.discoveredDevices) :
       LET M == Calling("getDiscoveredDevices", <<i>>, "none")
       IN Apply(AssignMember(M, GetDiscoveredDevices(M), i,
                             [id |-> "d2", signal |-> 65]))

GetUserSettingsMemberAssigned ==
    \E key \in SettingToggles, value \in BOOLEAN :
       LET M == Calling("getUserSettings", <<key, value>>, "none")
       IN Apply(AssignMember(M, GetUserSettings(M), key, value))

GetDeviceStatusMemberAssigned ==
    \E d \in Devices :
       LET M == Calling("getDeviceStatus", <<d, "battery">>, "none")
       IN Apply(AssignMember(M, GetDeviceStatus(M, d), "battery", 5))

GetStatePairedDevicesPushed ==
    \E dev \in DeviceEntries :
       /\ Len(pairedDevices) < MaxPaired
       /\ LET M == Calling("getState", <<"pairedDevices", dev>>, "none")
          IN Apply(PushOnPairedDevices(M, GetState(M), dev))

GetPairedDevicesEntryRenamed ==
    \E name \in DeviceNames :
       LET M == Calling("getPairedDevices", <<1, "customName", name>>, "none")
       IN /\ 1 \in SharedMembers(M, "getPairedDevices")
          /\ Apply(SetFieldOfPairedDevice(M, GetPairedDevices(M), 1,
                                          "customName", name))

GetStateSettingsToggled ==
    \E key \in SettingToggles, value \in BOOLEAN :
       LET M == Calling("getState", <<"settings", key, value>>, "none")
       IN Apply(SetFieldOfSettings(M, GetState(M), key, value))

\* The containers the getters return and what clients do to them, next to
\* the calls that fill the state; the store works. The devices are paired
\* from the device-connection view (connected: false), the status kept is
\* that of d1, and of the settings the haptic toggle is used.
GettersScope ==
    /\ Len(pairedDevices) <= MaxPaired
    /\ \A i \in 1..Len(pairedDevices) : ~pairedDevices[i].connected
    /\ DOMAIN stateManager.deviceStatus \subseteq {"d1"}
    /\ ~stateManager.settings.invertYAxis
InGettersScope(A) == A /\ GettersScope'

NextGetters ==
    \/ WhileStoreWorks(InGettersScope(AddPairedDeviceCalled))
    \/ WhileStoreWorks(InGettersScope(UpdateDeviceStatusCalled))
    \/ SetDiscoveredDevicesCalled
    \/ InGettersScope(GetStateMemberAssigned)
    \/ InGettersScope(GetPairedDevicesEntryAssigned)
    \/ GetDiscoveredDevicesEntryAssigned
    \/ InGettersScope(GetUserSettingsMemberAssigned)
    \/ InGettersScope(GetDeviceStatusMemberAssigned)
    \/ InGettersScope(GetStatePairedDevicesPushed)
    \/ GetPairedDevicesEntryRenamed
    \/ InGettersScope(GetStateSettingsToggled)

SpecGetters == Init /\ [][NextGetters]_vars

\* What each subscriber does when it is called in a notification pass: it
\* unsubscribes itself or another subscriber, or nothing
ListenerActs == [Subscribers -> Subscribers \cup {"none"}]

\* setCurrentView(viewName) is called and the listeners act during the pass
SetCurrentViewHeard ==
    \E v \in {DEVICE_LIST, SETTINGS}, does \in ListenerActs :
       LET M == Calling("setCurrentView", <<v, does>>, "none")
       IN Apply(Pass([M EXCEPT !.stateManager.currentView = v],
                     M.stateManager.listeners, 1, does))

\* Subscriptions, and passes during which listeners unsubscribe.
NextPass ==
    \/ SubscribeCalled
    \/ UnsubscribeCalled
    \/ SetCurrentViewHeard
    \/ WhileStoreWorks(SetActiveDeviceCalled)

SpecPass == Init /\ [][NextPass]_vars

\* Mutating calls over a store that fails at times, with subscribers
\* watching, before and after flushStorageErrors(): d1 is paired from the
\* device-connection view and made the active device.
FailureScope ==
    /\ \A i \in 1..Len(pairedDevices) :
          pairedDevices[i].id = "d1" /\ ~pairedDevices[i].connected
    /\ activeDeviceId \in {NULL, "d1"}
    /\ stateManager.listeners \in {<<>>, <<"ui">>}

InFailureScope(A) == A /\ FailureScope'

NextFailures ==
    \/ InFailureScope(AddPairedDeviceCalled)
    \/ InFailureScope(RemovePairedDeviceCalled)
    \/ InFailureScope(SetActiveDeviceCalled)
    \/ InFailureScope(SubscribeCalled)
    \/ FlushStorageErrorsCalled

SpecFailures == Init /\ [][NextFailures]_vars

(* ------------------------------ sanity ---------------------------------- *)
TypeOK ==
    /\ device \in Devices \cup {NULL}
    /\ gattServer \in Devices \cup {NULL}
    /\ reconnectAttempts \in 0..maxReconnectAttempts
    /\ reconnectTimeout \in {NoTimer, PendingTimer, FiredTimer}
    /\ connectionState \in {DISCONNECTED, CONNECTING, CONNECTED, ERROR}
    /\ operationInProgress = (userOp.op # "none")
    /\ BagCardinality(threads) <= MaxThreads
    /\ LET cur == {t \in BagToSet(threads) : t.current}
       IN /\ \A t \in cur : IsTimer(t) /\ threads[t] = 1
          /\ Cardinality(cur) <= 1
          /\ (reconnectTimeout = PendingTimer) = (cur # {})
    /\ Len(commandQueue) <= MaxQueue


(* ----------------------------- properties ------------------------------- *)
\* What the manager, the application state and the platform hold, without
\* the records of what the last step returned.
programState ==
    <<device, gattServer, characteristic, isSupported, reconnectAttempts,
      reconnectTimeout, operationInProgress, connectionState, activeDeviceId,
      pairedDevices, isScanning, commandQueue, lastCommand, gattConnected,
      disconnectListeners, userOp, threads, writes>>

PendingTimers == {t \in BagToSet(threads) : IsTimer(t)}
CallbacksInFlight == {t \in BagToSet(threads) : ~IsTimer(t)}
AttemptsInFlight == {t \in BagToSet(threads) : t.st = "gatt"}

\* C1: while requestDevice(), connect() or disconnect() is unresolved, a call
\* of any of the three is rejected at once with the 'Another Bluetooth
\* operation is in progress' error and changes nothing (it is not queued).
C1_GuardRejects ==
    [][(operationInProgress /\ (RequestDevice \/ Connect \/ Disconnect))
         => (ret'.out = ErrBusy /\ UNCHANGED programState)]_vars

\* connect() was rejected while requestDevice() was unresolved
C1_Witness ==
    /\ ret = Ret("connect", ErrBusy)
    /\ userOp.op = "requestDevice"

\* C2: two platform link operations are never in flight together: no
\* reconnect callback is suspended at its gatt.connect() or discovery while
\* a user-initiated requestDevice() or connect() is unresolved, and no two
\* reconnect callbacks are in flight.
C2_NoOverlap ==
    /\ ~(userOp.op # "none" /\ CallbacksInFlight # {})
    /\ Copies(threads, CallbacksInFlight) <= 1

\* C3: when the reconnect loop that an unexpected disconnect started gives
\* up, every attempt having failed and nobody having intervened, it has made
\* three attempts, after waits of 1000, 2000 and 4000 ms.
C3_ThreeAttempts ==
    episode.done =>
        /\ episode.attempts = 3
        /\ episode.waits = <<1000, 2000, 4000>>

\* C4: a step in which the reconnect loop gives up ends with connection
\* state Disconnected, the device, session and endpoint handles null, the
\* reconnect counter 0, no active device and no reconnect timer outstanding.
C4_GiveUpState ==
    gaveUp =>
        /\ connectionState = DISCONNECTED
        /\ device = NULL /\ gattServer = NULL
        /\ characteristic = NoCharacteristic
        /\ reconnectAttempts = 0
        /\ activeDeviceId = NULL
        /\ PendingTimers = {}

\* C5: at most one reconnect timer is outstanding at any time.
C5_OneTimer == Copies(threads, PendingTimers) <= 1

\* C6: from the return of an accepted disconnect() to the next
\* requestDevice(), connection state stays Disconnected and no reconnect
\* attempt is in flight.
C6_QuietAfterDisconnect ==
    quiet =>
        /\ connectionState = DISCONNECTED
        /\ AttemptsInFlight = {}

CleanDisconnected ==
    /\ connectionState = DISCONNECTED
    /\ device = NULL /\ gattServer = NULL
    /\ characteristic = NoCharacteristic
    /\ reconnectAttempts = 0
    /\ activeDeviceId = NULL
    /\ PendingTimers = {}

\* C7: disconnect(), called with no other operation in flight, returns with
\* connection state Disconnected, the handles null, the reconnect counter 0,
\* no active device and no timer pending; and a disconnect() called in that
\* state leaves it as it is.
C7_DisconnectIdempotent ==
    [][(userOp = NoOp /\ CallbacksInFlight = {} /\ writes = <<>>
          /\ ret' = Ret("disconnect", "ok"))
         => (CleanDisconnected'
             /\ (CleanDisconnected => UNCHANGED programState))]_vars

\* C8: sendCommand called while connection state is Disconnected fails at
\* once with the not-connected error, starts no write, and leaves command
\* history, lastCommand and connection state as they are.
C8_NotConnected ==
    [][(connectionState = DISCONNECTED /\ SendCommand)
         => (ret' = Ret("sendCommand", ErrNotConnected)
             /\ UNCHANGED <<writes, commandQueue, lastCommand,
                            connectionState>>)]_vars

\* C9: when sendCommand fails because its write was rejected, command
\* history and lastCommand are as they were before the call.
C9_HistoryOnlyOnSuccess ==
    [][\A i \in 1..Len(writes) :
          (writes' = RemoveAt(writes, i) /\ ret'.op = "sendCommand"
             /\ ret'.out # "ok")
          => (commandQueue' = writes[i].queueBefore
              /\ lastCommand' = writes[i].lastBefore)]_vars

\* C10, as the specification states it: whenever the write inside sendCommand is rejected,
\* connection state becomes Error and the call fails with the 'Lost
\* connection to device' error.
C10_AnyWriteFailureIsLost ==
    [][WriteReject
         => (connectionState' = ERROR
             /\ ret' = Ret("sendCommand", ErrLost))]_vars

\* C10, amended: a write rejected with a NetworkError or a NotConnectedError
\* sets connection state to Error and fails the call with the 'Lost
\* connection to device' error; a write rejected with any other error fails
\* the call with the 'Failed to send command' error and leaves connection
\* state as it is. The call fails either way.
C10_WriteFailure ==
    [][\A i \in 1..Len(writes), name \in WriteErrorNames :
          Apply(WriteRejected(Cur, i, name))
          => IF name \in {"NetworkError", "NotConnectedError"}
             THEN /\ connectionState' = ERROR
                  /\ ret' = Ret("sendCommand", ErrLost)
             ELSE /\ connectionState' = connectionState
                  /\ ret' = Ret("sendCommand", ErrSendFailed)]_vars

\* a write was rejected with another error and connection state is not Error
C10_Witness ==
    /\ ret = Ret("sendCommand", ErrSendFailed)
    /\ connectionState = CONNECTED

\* C11: sendCommand starts a write on the transmission endpoint only when
\* connection state is Connected and an endpoint is resolved.
C11_WritesOnlyWhenConnected ==
    [][(Len(writes') > Len(writes))
         => (connectionState = CONNECTED
             /\ characteristic # NoCharacteristic)]_vars

\* The sends of the sendCommandSequence call that have resolved or rejected.
Settled == Len(seq.successes) + Len(seq.failures)

\* C12: within one sendCommandSequence call the tokens passed to sendCommand
\* are, in order, the first tokens of the input; the send of token k + 1
\* starts only when k delays have elapsed, and the k-th delay elapses only
\* after the send of token k has resolved or rejected.
C12_InOrderWithDelay ==
    /\ Len(seq.attempts) <= Len(seq.tokens)
    /\ seq.attempts = SubSeq(seq.tokens, 1, Len(seq.attempts))
    /\ Len(seq.attempts) <= seq.delays + 1
    /\ seq.delays <= Settled
    /\ Settled <= Len(seq.attempts)

\* the send of a second, different token is in flight, after one delay
C12_Witness ==
    /\ seq.pc = "write"
    /\ Len(seq.attempts) = 2 /\ seq.delays = 1
    /\ seq.tokens[1] # seq.tokens[2]

\* C13: with stopOnError, a failed send ends the call in the same step: the
\* call rejects with the error of that send, the failed token is the last
\* one attempted, and all tokens before it are the successes.
C13_StopOnError ==
    (seq.stopOnError /\ seq.failures # <<>>) =>
        /\ seq.pc = "idle" /\ seq.outcome = "rejected"
        /\ Len(seq.failures) = 1
        /\ ret = Ret("sendCommandSequence", seq.failures[1].error)
        /\ seq.failures[1].command = seq.tokens[Len(seq.attempts)]
        /\ seq.successes = SubSeq(seq.tokens, 1, Len(seq.attempts) - 1)

\* the call was rejected at its second token, after one success
C13_Witness ==
    /\ seq.outcome = "rejected"
    /\ seq.successes # <<>>
    /\ Len(seq.attempts) = 2

\* the tokens of t at the positions in P, in order
Restrict(t, P) ==
    LET F[i \in 0..Len(t)] ==
           IF i = 0 THEN <<>>
           ELSE IF i \in P THEN Append(F[i - 1], t[i]) ELSE F[i - 1]
    IN F[Len(t)]

FailedCommands == [k \in 1..Len(seq.failures) |-> seq.failures[k].command]

\* C14: without stopOnError the call never rejects, and when it returns
\* every token has been attempted once, in order, and the results split
\* the tokens by position into successes and failures, each in input order.
C14_ContinueOnError ==
    ~seq.stopOnError =>
        /\ seq.outcome # "rejected"
        /\ seq.outcome = "returned" =>
              /\ ret = Ret("sendCommandSequence", "ok")
              /\ seq.attempts = seq.tokens
              /\ Len(seq.successes) + Len(seq.failures) = Len(seq.tokens)
              /\ \E P \in SUBSET (1..Len(seq.tokens)) :
                    /\ seq.successes = Restrict(seq.tokens, P)
                    /\ FailedCommands =
                          Restrict(seq.tokens, (1..Len(seq.tokens)) \ P)

\* a call without stopOnError returned one success and one failure
C14_Witness ==
    /\ ~seq.stopOnError /\ seq.outcome = "returned"
    /\ seq.successes # <<>> /\ seq.failures # <<>>

\* C15: when connect() succeeds for the selected device d, on return the
\* connection state is Connected, the reconnect-attempt counter is 0, the
\* paired devices hold exactly one entry with id d and activeDeviceId is d
\* (whether or not the transmission endpoint was resolved).
PairedEntries(d) == {i \in 1..Len(pairedDevices) : pairedDevices[i].id = d}

C15_ConnectSuccess ==
    ret = Ret("connect", "ok") =>
        /\ connectionState = CONNECTED
        /\ reconnectAttempts = 0
        /\ Cardinality(PairedEntries(device)) = 1
        /\ activeDeviceId = device

\* C16: the connection state is never left at Connecting: whenever no
\* requestDevice(), connect() or disconnect() is unresolved, no reconnect
\* timer is pending and no reconnect attempt is in flight, the connection
\* state is Disconnected, Connected or Error.
NothingPending == userOp = NoOp /\ threads = EmptyBag

C16_NeverLeftConnecting ==
    NothingPending => connectionState \in {DISCONNECTED, CONNECTED, ERROR}

\* C17: at most one link to a peripheral is live at any time (when a newly
\* selected device is connected while the link to the device selected
\* before is live, the old link is torn down first).
LiveLinks == {d \in Devices : gattConnected[d]}

C17_OneLiveLink == Cardinality(LiveLinks) <= 1

\* C18: when the Bluetooth API is absent, requestDevice() fails with the
\* unsupported-platform error and changes nothing: connection state,
\* scanning flag, device handle, paired devices and everything else the
\* program holds are as before the call, and the in-flight guard is free.
C18_UnsupportedChangesNothing ==
    [][(~isSupported /\ ret'.op = "requestDevice") =>
          /\ ret'.out = ErrUnsupported
          /\ UNCHANGED programState
          /\ ~operationInProgress']_vars

C18_Witness == ~isSupported /\ ret = Ret("requestDevice", ErrUnsupported)

\* C19: getBatteryLevel() never rejects; it returns null when there is no
\* connected session and when the battery service, the characteristic or
\* its value cannot be read (a level is returned only by a read that
\* resolved, with a byte in it, on a session that is still there); and no
\* step of it changes the connection state, the command history, the
\* in-flight guard or the link handles.
BatteryStep == battery'.pc # battery.pc \/ battery'.outcome # "none"

NoSession == gattServer = NULL \/ ~gattConnected[gattServer]

C19_BatteryNeverRejects ==
    [][BatteryStep =>
          /\ battery'.outcome \in {"none", "null", "level"}
          /\ (battery.pc = "idle" /\ NoSession) => battery'.outcome = "null"
          /\ battery'.outcome = "level" =>
                /\ battery.pc = "read" /\ ~battery.doomed
                /\ <<battery'.level>> \in BatteryValues
          /\ (battery.pc # "idle" /\ battery.doomed) =>
                battery'.outcome = "null"
          /\ UNCHANGED <<connectionState, commandQueue, lastCommand,
                         operationInProgress, device, gattServer,
                         characteristic>>]_vars

C19_Witness ==
    /\ battery.outcome = "null" /\ ret = Ret("getBatteryLevel", "null")
    /\ ~NoSession /\ connectionState = CONNECTED

\* C20: after any sequence of recordCommand calls the command history
\* holds at most MaxQueue entries; after more calls than that it holds
\* exactly the last MaxQueue commands issued, in their original order; and
\* lastCommand is the most recent one.
LastOf(q, n) == SubSeq(q, Len(q) - n + 1, Len(q))

C20_RingBuffer ==
    /\ Len(commandQueue) <= MaxQueue
    /\ Len(issued) > MaxQueue => commandQueue = LastOf(issued, MaxQueue)
    /\ issued # <<>> => lastCommand = issued[Len(issued)]

C20_Witness ==
    /\ Len(issued) > MaxQueue + 1
    /\ issued[1] # issued[Len(issued)]
    /\ commandQueue[1] # commandQueue[Len(commandQueue)]

\* C21: addPairedDevice with a device whose id is already among the paired
\* devices leaves the paired devices as they are, however often it is
\* repeated; and no two entries of the paired devices ever have the same id.
UniqueIds ==
    \A i, j \in 1..Len(pairedDevices) :
       pairedDevices[i].id = pairedDevices[j].id => i = j

C21_IdempotentPairing ==
    /\ []UniqueIds
    /\ [][(call'.op = "addPairedDevice"
           /\ DeviceExists(pairedDevices, call'.args[1].id))
          => pairedDevices' = pairedDevices]_vars

C21_Witness ==
    /\ call.op = "addPairedDevice"
    /\ Len(pairedDevices) = 2
    /\ \E i \in 1..2 :
          /\ pairedDevices[i].id = call.args[1].id
          /\ pairedDevices[i] # call.args[1]
          /\ "customName" \in DOMAIN pairedDevices[i]
    /\ browser.notified = <<>>

\* C22: in every reachable state, if activeDeviceId is not null then a
\* paired device with that id exists.
C22_ActiveIsPaired ==
    activeDeviceId # NULL => DeviceExists(pairedDevices, activeDeviceId)

\* C23: no subscriber is notified with a partially updated snapshot: when
\* removePairedDevice is called in a state where the active device (if any)
\* is paired, no listener is given a snapshot in which activeDeviceId names
\* a device that is not among the paired devices.
Whole(snapshot) ==
    snapshot.activeDeviceId # NULL =>
        DeviceExists(snapshot.pairedDevices, snapshot.activeDeviceId)

C23_NoPartialSnapshot ==
    [][(call'.op = "removePairedDevice" /\ C22_ActiveIsPaired) =>
          \A j \in 1..Len(browser'.notified) :
             Whole(browser'.notified[j].state)]_vars

\* C24: updateState called with null, an array or any value that is no
\* object leaves the snapshot unchanged, notifies no listener, writes
\* nothing to storage and does not throw.
CurrentSnapshot == GetState(Cur)

C24_InvalidUpdateRejected ==
    [][(call'.op = "updateState" /\ call'.args[1] \in InvalidChanges) =>
          /\ CurrentSnapshot' = CurrentSnapshot
          /\ browser'.notified = <<>>
          /\ browser'.localStorage = browser.localStorage
          /\ ~call'.threw]_vars

C24_Witness ==
    /\ call.op = "updateState" /\ call.args[1] = Value("array")
    /\ Len(stateManager.listeners) = 2
    /\ stateManager.currentView = SETTINGS

\* C25: each accepted mutation calls every subscribed listener exactly
\* once, in the order of the subscriptions, each with the fully merged new
\* snapshot, before the mutating call returns: what a mutating call
\* notifies is a whole number of rounds over the subscriptions in their
\* order, one snapshot per round, the last of them the state the call
\* returns in; and a call that makes one mutation notifies one round.
Mutators ==
    {"updateState", "completeOnboarding", "setActiveDevice",
     "removePairedDevice"}

OneMutation(c) ==
    \/ c.op \in {"completeOnboarding", "setActiveDevice"}
    \/ c.op = "updateState" /\ c.args[1] \in ValidChanges

Rounds(log, subscriptions) ==
    LET n == Len(subscriptions)
    IN IF n = 0 THEN log = <<>>
       ELSE /\ Len(log) % n = 0
            /\ \A j \in 1..Len(log) :
                  /\ log[j].listener = subscriptions[((j - 1) % n) + 1]
                  /\ log[j].state = log[j - ((j - 1) % n)].state

C25_NotifiedInOrder ==
    [][call'.op \in Mutators =>
          LET log == browser'.notified
              n == Len(stateManager.listeners)
          IN /\ Rounds(log, stateManager.listeners)
             /\ \A j \in 1..Len(log) :
                   j > Len(log) - n => log[j].state = CurrentSnapshot'
             /\ OneMutation(call') => Len(log) = n
             /\ CurrentSnapshot' # CurrentSnapshot => Len(log) >= n]_vars

C25_Witness ==
    /\ call.op = "setActiveDevice"
    /\ stateManager.listeners = <<"app", "ui">>
    /\ Len(browser.notified) = 2
    /\ browser.notified[1].listener = "app"
    /\ browser.notified[1].state.activeDeviceId = "d2"

\* What a restart would load from each slot is what the state holds.
Mirrored ==
    /\ Loaded(Cur, ONBOARDING_COMPLETE, FALSE)
           = stateManager.onboardingComplete
    /\ Loaded(Cur, PAIRED_DEVICES, <<>>) = pairedDevices
    /\ Loaded(Cur, ACTIVE_DEVICE_ID, NULL) = activeDeviceId
    /\ Loaded(Cur, USER_SETTINGS, DEFAULT_SETTINGS) = stateManager.settings
    /\ Loaded(Cur, DEVICE_STATUS, <<>>) = stateManager.deviceStatus

\* The mutating calls that touch a persisted field
PersistingCalls ==
    {"completeOnboarding", "addPairedDevice", "removePairedDevice",
     "updateDeviceName", "setActiveDevice", "updateUserSetting",
     "updateDeviceStatus"}

TransientCalls ==
    {"recordCommand", "clearCommandQueue", "setDiscoveredDevices",
     "setScanning", "setConnectionState"}

\* C27: the store holds items under the keys of the five persisted slots
\* only; recordCommand, clearCommandQueue, setDiscoveredDevices, setScanning
\* and setConnectionState leave the store as it is; and after a restart the
\* command history is empty, there is no last command and the connection
\* state is Disconnected.
C27_TransientNeverStored ==
    /\ [](DOMAIN browser.localStorage \subseteq STORAGE_KEYS)
    /\ [][call'.op \in TransientCalls
             => browser'.localStorage = browser.localStorage]_vars
    /\ [][call'.op = "constructor"
             => /\ commandQueue' = <<>>
                /\ lastCommand' = NULL
                /\ connectionState' = DISCONNECTED]_vars

\* A restart after commands were recorded and an id was saved
C27_Witness ==
    /\ call.op = "constructor"
    /\ Len(issued) >= 2
    /\ commandQueue = <<>>
    /\ connectionState = DISCONNECTED
    /\ activeDeviceId = "d1"
    /\ DOMAIN browser.localStorage = {ACTIVE_DEVICE_ID}

\* The storage errors the step reports: queued before flushStorageErrors()
\* has run, dispatched after.
Reported ==
    IF stateManager.isInitialized THEN browser'.dispatched
    ELSE SubSeq(stateManager'.errorQueue, Len(stateManager.errorQueue) + 1,
                Len(stateManager'.errorQueue))

\* loadFromStorage(key, default) is called, the store can be read
LoadCalled == call'.op = "loadFromStorage" /\ call'.fault = "none"
LoadedKey == call'.args[1]
Unparsable(key) ==
    /\ key \in DOMAIN browser.localStorage
    /\ ParseThrows(browser.localStorage[key])

\* What the claim says of a load of unparsable content, and of a load of a
\* key without an item
Healed ==
    /\ call'.returned = call'.args[2]
    /\ LoadedKey \notin DOMAIN browser'.localStorage
    /\ Reported = <<ErrCorrupted>>
Silent ==
    /\ call'.returned = call'.args[2]
    /\ browser'.localStorage = browser.localStorage
    /\ Reported = <<>>

Arrived ==
    IF call'.op = "setActiveDevice" /\ call'.fault = "QuotaExceededError"
    THEN <<ErrQuota>>
    ELSE IF call'.op = "setActiveDevice" /\ call'.fault = "SecurityError"
    THEN <<ErrSaveFailed>>
    ELSE IF LoadCalled /\ Unparsable(LoadedKey)
            /\ browser.localStorage[LoadedKey] # EmptyText
    THEN <<ErrCorrupted>>
    ELSE <<>>

Flag == stateManager.onboardingComplete
StoredFlag ==
    /\ ONBOARDING_COMPLETE \in DOMAIN browser.localStorage
    /\ browser.localStorage[ONBOARDING_COMPLETE] = Stringify(TRUE)

\* On a fresh store the flag is false and the first view is onboarding, and
\* getOnboardingState() returns the flag.
FreshStart ==
    /\ ~Flag /\ stateManager.currentView = ONBOARDING
    /\ [][(call'.op = "constructor" /\ call'.fault = "none"
              /\ browser.localStorage = <<>>)
             => ~Flag' /\ stateManager'.currentView = ONBOARDING]_vars
    /\ [][call'.op = "getOnboardingState" => call'.returned = Flag]_vars

\* C30 as stated: on a fresh store the flag is false and the first view is
\* onboarding; completeOnboarding() sets the flag in memory and in the
\* store; once set, only a full reset of the store makes it false; a later
\* start reads true and begins at the device list.
C30_OnboardingSetOnce ==
    /\ FreshStart
    /\ [][call'.op = "completeOnboarding" => Flag' /\ StoredFlag']_vars
    /\ [][(Flag /\ call'.op # "clearStorage") => Flag']_vars
    /\ [][(StoredFlag /\ call'.op # "clearStorage") => StoredFlag']_vars
    /\ [][(StoredFlag /\ call'.op = "constructor")
             => Flag' /\ stateManager'.currentView = DEVICE_LIST]_vars

\* C30, amended: completeOnboarding() sets the flag in memory, and in the
\* store when the write succeeds; once it is set in memory and in the store
\* no call makes it false in either but a full reset of the store and a
\* start that cannot read the store; a later start that can read the store
\* reads true and begins at the device list.
C30_OnboardingSetOnceInAWorkingStore ==
    /\ FreshStart
    /\ [][call'.op = "completeOnboarding"
             => Flag' /\ (call'.fault = "none" => StoredFlag')]_vars
    /\ [][(Flag /\ StoredFlag /\ call'.op # "clearStorage"
              /\ ~(call'.op = "constructor" /\ call'.fault # "none"))
             => Flag' /\ StoredFlag']_vars
    /\ [][(StoredFlag /\ call'.op = "constructor" /\ call'.fault = "none")
             => Flag' /\ stateManager'.currentView = DEVICE_LIST]_vars

\* A start that found the flag in the store
C30_Witness ==
    /\ call.op = "constructor"
    /\ call.fault = "none"
    /\ Flag
    /\ StoredFlag
    /\ stateManager.currentView = DEVICE_LIST

\* C31: a change a client makes to a container a getter returned (getState,
\* getPairedDevices, getDiscoveredDevices, getUserSettings, getDeviceStatus),
\* or to an array or object nested in it, leaves the snapshot of the
\* Application State as it is.
C31_GettersReturnDefensiveCopies ==
    [][call'.op \in GetterNames => CurrentSnapshot' = CurrentSnapshot]_vars

\* The reconnect loop is scheduled or running: a reconnect timer is pending
\* or a reconnect callback is in flight. Platform calls of requestDevice(),
\* connect() or sendCommand that have not settled are still to run.
ReconnectUnderWay == threads # EmptyBag
CallsUnsettled == userOp # NoOp \/ writes # <<>>

\* C32: when sendCommand fails with the lost-connection error the reconnect
\* path is entered: a reconnect timer is pending or a reconnect attempt is
\* in flight, or the program has a platform call yet to settle (otherwise
\* nothing runs until the user or the platform does something); and a
\* sendCommand that fails for want of an endpoint schedules no retry.
C32_LostConnectionReconnects ==
    /\ [][ret' = Ret("sendCommand", ErrLost)
             => (ReconnectUnderWay' \/ CallsUnsettled')]_vars
    /\ [][ret' = Ret("sendCommand", ErrNoCharacteristic)
             => threads' = threads]_vars

\* A connect() that returned the session, or a reconnect callback that ran
\* to its end, in this step
ConnectSucceeded == ret' = Ret("connect", "ok")
ReconnectSucceeded == ReconnectDiscoveryResolve \/ ReconnectDiscoveryReject

\* The endpoint held was resolved on the link that is up now
FreshEndpoint ==
    /\ characteristic.dev = gattServer
    /\ ~characteristic.stale

\* C33: after a successful connect() or a successful auto-reconnect the
\* transmission endpoint is absent or the one resolved on the link just
\* established, and sendCommand never starts a write on an endpoint that
\* was resolved on an earlier link.
C33_EndpointOfCurrentLink ==
    /\ [][(ConnectSucceeded \/ ReconnectSucceeded)
             => (characteristic' = NoCharacteristic \/ FreshEndpoint')]_vars
    /\ [][Len(writes') > Len(writes) => ~characteristic.stale]_vars

\* The paired devices whose record says connected
ConnectedEntries ==
    {i \in 1..Len(pairedDevices) : pairedDevices[i].connected}

\* C34: at most one paired device has connected = true, and in the state
\* disconnect() returns in, or the reconnect loop gives up in, none has.
C34_ConnectedFollowsLink ==
    /\ Cardinality(ConnectedEntries) <= 1
    /\ (ret = Ret("disconnect", "ok") \/ gaveUp) => ConnectedEntries = {}

\* The listeners a step has called, in the order of the calls
Invoked(log) == [j \in 1..Len(log) |-> log[j].listener]

\* The listeners that are unsubscribed during a pass over the subscriptions
\* before, by a listener that is called in it
UnsubscribedIn(before, does) ==
    {does[before[k]] : k \in 1..Len(before)} \ {"none"}

\* C35: when listeners unsubscribe themselves or others during a
\* notification pass, the pass still calls every listener that was
\* subscribed when it began, once each and in the order of the
\* subscriptions; the listeners unsubscribed are subscribed no longer when
\* the pass ends and the others still are; and every pass calls the
\* listeners subscribed when it begins and no other, so that a listener
\* unsubscribed is called in no later pass.
C35_UnsubscribeDuringPass ==
    /\ [][(call'.op = "setCurrentView" /\ Len(call'.args) = 2) =>
            /\ Invoked(browser'.notified) = stateManager.listeners
            /\ stateManager'.listeners =
                  SelectSeq(stateManager.listeners,
                            LAMBDA l : l \notin UnsubscribedIn(
                                          stateManager.listeners,
                                          call'.args[2]))]_vars
    /\ [][call'.op \in {"setCurrentView", "setActiveDevice"} =>
            Invoked(browser'.notified) = stateManager.listeners]_vars

\* The first listener unsubscribed the second, which was still called
C35_Witness ==
    /\ call.op = "setCurrentView" /\ Len(call.args) = 2
    /\ call.args[2]["app"] = "ui"
    /\ Invoked(browser.notified) = <<"app", "ui">>
    /\ stateManager.listeners = <<"app">>

\* The saveToStorage calls the mutating call of this step makes
WritesMade ==
    IF call'.op = "addPairedDevice"
    THEN IF DeviceExists(pairedDevices, call'.args[1].id) THEN 0 ELSE 1
    ELSE IF call'.op = "removePairedDevice"
    THEN IF activeDeviceId = call'.args[1] THEN 2 ELSE 1
    ELSE 1

\* A write of the mutating call of this step fails
WriteFails ==
    /\ call'.op \in {"addPairedDevice", "removePairedDevice", "setActiveDevice"}
    /\ call'.fault # "none"
    /\ WritesMade > 0

\* What the failure is reported as
FailureMessage ==
    IF call'.fault = "QuotaExceededError" THEN ErrQuota ELSE ErrSaveFailed

\* The snapshot holds the change the call makes
ChangeMade ==
    IF call'.op = "addPairedDevice"
    THEN pairedDevices' = Append(pairedDevices, call'.args[1])
    ELSE IF call'.op = "removePairedDevice"
    THEN /\ pairedDevices' = Without(pairedDevices, call'.args[1])
         /\ activeDeviceId = call'.args[1] => activeDeviceId' = NULL
    ELSE activeDeviceId' = call'.args[1]

\* The call returns, the snapshot holds its change, and every subscriber
\* has been given the snapshot the call ends with
CompletesInMemory ==
    /\ ~call'.threw
    /\ ChangeMade
    /\ stateManager.listeners # <<>> =>
          /\ browser'.notified # <<>>
          /\ browser'.notified[Len(browser'.notified)].state
                = CurrentSnapshot'

\* C36 as stated: a mutating call in which a write to the store fails
\* returns, with the change in the snapshot and in the notifications, and
\* reports exactly one storage error (queued before flushStorageErrors(),
\* dispatched after), whose message tells a full store from other failures.
C36_OneErrorPerFailedCall ==
    [][WriteFails =>
          /\ CompletesInMemory
          /\ Reported = <<FailureMessage>>]_vars

\* C36, amended: such a call reports one storage error for each write that
\* failed: one, and two when removePairedDevice removes the active device
\* (it writes the paired devices and then the active device id).
C36_OneErrorPerFailedWrite ==
    [][WriteFails =>
          /\ CompletesInMemory
          /\ Reported = [k \in 1..WritesMade |-> FailureMessage]]_vars

\* The active device was removed over a full store after the flush, with a
\* subscriber watching
C36_Witness ==
    /\ call.op = "removePairedDevice" /\ call.fault = "QuotaExceededError"
    /\ browser.dispatched = <<ErrQuota, ErrQuota>>
    /\ Len(browser.notified) = 2
    /\ activeDeviceId = NULL /\ pairedDevices = <<>>
    /\ ACTIVE_DEVICE_ID \in DOMAIN browser.localStorage
    /\ browser.localStorage[ACTIVE_DEVICE_ID] = Stringify("d1")

\* The operations behind the in-flight guard
GuardedOps == {"requestDevice", "connect", "disconnect"}

\* C37: the in-flight guard is set exactly while an accepted
\* requestDevice(), connect() or disconnect() is unresolved; every step in
\* which such a call ends, returning or throwing, frees it; and a call the
\* guard rejects leaves the guard set and changes neither the handles, the
\* reconnect counter and timer nor the Application State, notifies no
\* listener and writes nothing to the store.
C37_GuardHeldExactly ==
    /\ [][operationInProgress' = (userOp'.op # "none")]_vars
    /\ [][(ret'.op \in GuardedOps /\ ret'.out # ErrBusy)
             => ~operationInProgress']_vars
    /\ [][ret'.out = ErrBusy =>
            /\ operationInProgress /\ operationInProgress'
            /\ UNCHANGED <<device, gattServer, characteristic,
                           reconnectAttempts, reconnectTimeout, threads,
                           userOp>>
            /\ CurrentSnapshot' = CurrentSnapshot
            /\ browser'.notified = <<>>
            /\ browser'.localStorage = browser.localStorage]_vars

\* disconnect() was rejected while connect() awaited its discovery and a
\* reconnect timer was pending
C37_Witness ==
    /\ ret = Ret("disconnect", ErrBusy)
    /\ userOp.op = "connect" /\ userOp.pc = "disc"
    /\ PendingTimers # {}
    /\ operationInProgress

\* C38: whenever the connection state is Connected, no reconnect timer is
\* pending and no reconnect attempt is in flight; in particular a connect()
\* of the user that succeeds during a backoff wait leaves no timer behind
\* that fires later.
C38_ConnectedMeansNoReconnect ==
    connectionState = CONNECTED =>
        /\ PendingTimers = {}
        /\ AttemptsInFlight = {}

\* The session and the endpoint the manager holds are those of the device
\* it holds.
HandlesOfSelected ==
    /\ gattServer # NULL => gattServer = device
    /\ characteristic.dev # NULL => characteristic.dev = device

\* The link to a device that is not the selected one drops, and the
\* platform dispatches gattserverdisconnected at that device.
DropOfUnselected(d) ==
    /\ UnexpectedDisconnect
    /\ device # NULL /\ d # device
    /\ gattConnected[d] /\ ~gattConnected'[d]

\* C39: the session and endpoint handles are always those obtained from the
\* currently selected device: sendCommand() writes only to the selected
\* device (never to the one selected before), and a disconnect notification
\* from a device selected before changes nothing of the state of the
\* current link (connection state, handles, reconnect counter and timer,
\* active device).
C39_HandlesOfSelectedDevice ==
    /\ [][HandlesOfSelected']_vars
    /\ [][Len(writes') > Len(writes)
            => writes'[Len(writes')].dev = device]_vars
    /\ [][\A d \in Devices :
            DropOfUnselected(d) =>
               UNCHANGED <<connectionState, device, gattServer,
                           reconnectAttempts, reconnectTimeout, threads,
                           activeDeviceId>>]_vars

\* The reconnect loop is at rest: no timer is pending and no attempt is in
\* flight.
LoopAtRest == threads = EmptyBag

\* Where the loop is meant to end
LoopEnded ==
    /\ LoopAtRest
    /\ \/ connectionState = CONNECTED
       \/ connectionState = DISCONNECTED /\ device = NULL

\* C40: the reconnect loop terminates: from an unexpected disconnect, unless
\* the user calls an operation or the link drops again, it comes to rest
\* (no timer pending, no attempt in flight), and when it comes to rest by
\* giving up the connection state is Disconnected and the device handle is
\* cleared (when an attempt succeeded the connection state is Connected).
C40_ReconnectLoopTerminates ==
    /\ [](episode.done /\ LoopAtRest => LoopEnded)
    /\ episode.active ~> (LoopEnded \/ ~episode.active)

====
